---------------------------- MODULE Spec2Model ----------------------------
(***************************************************************************)
(* Model of mrbaviirc.wsgi.router: the segment trie (_PathSegment), the    *)
(* template compiler (Router._split_path, Router._parse_var), and the      *)
(* Router operations register, route and get, together with                *)
(* WsgiApp.handle_request, the caller of route.                            *)
(*                                                                         *)
(* Representation.  A Python str is a sequence of one-character strings.   *)
(* A dict is a function whose DOMAIN is the key set; an OrderedDict is a   *)
(* sequence of [key, child] records with distinct keys, in insertion       *)
(* order.  _PathSegment objects live in `heap`, a sequence of nodes; a     *)
(* node's identity is its index, so a smaller index is an earlier          *)
(* allocation.  A regular expression source text is a sequence of tokens   *)
(* (an escaped literal run or a named group around a fragment) standing    *)
(* for "^" + "".join(matches) + "$"; the compiled object is a record of   *)
(* that text and an id that tells apart two compilations of one text.      *)
(***************************************************************************)
EXTENDS Integers, Sequences, FiniteSets, TLC

(***************************************************************************)
(* Characters and str methods                                              *)
(***************************************************************************)
NL == "\n"

Digits == {"0", "1", "2", "3", "4", "5", "6", "7", "8", "9"}

LowerCase ==
    <<"a", "b", "c", "d", "e", "f", "g", "h", "i", "j", "k", "l", "m",
      "n", "o", "p", "q", "r", "s", "t", "u", "v", "w", "x", "y", "z">>

UpperCase ==
    <<"A", "B", "C", "D", "E", "F", "G", "H", "I", "J", "K", "L", "M",
      "N", "O", "P", "Q", "R", "S", "T", "U", "V", "W", "X", "Y", "Z">>

Range(s) == {s[i] : i \in DOMAIN s}

\* [a-zA-Z0-9_]
WordChars == Range(LowerCase) \cup Range(UpperCase) \cup Digits \cup {"_"}

\* the characters re.escape puts a backslash before
SpecialChars ==
    {"(", ")", "[", "]", "{", "}", "?", "*", "+", "-", "|", "^", "$",
     "\\", ".", "&", "~", "#", " ", NL}

\* str.upper() on one character
UpperChar(c) ==
    IF \E i \in DOMAIN LowerCase : LowerCase[i] = c
    THEN UpperCase[CHOOSE i \in DOMAIN LowerCase : LowerCase[i] = c]
    ELSE c

\* a variant of upper that keeps the letter case
upper_asis(s) == s

\* str.upper()
upper(s) == [i \in DOMAIN s |-> UpperChar(s[i])]

\* s with its letters in lower case: two strings that differ in letter case
\* only have the same Fold
Fold(s) ==
    [i \in DOMAIN s |->
        IF \E k \in DOMAIN UpperCase : UpperCase[k] = s[i]
        THEN LowerCase[CHOOSE k \in DOMAIN UpperCase : UpperCase[k] = s[i]]
        ELSE s[i]]

\* s[i:] with a 0-based Python index i
From(s, i) == SubSeq(s, i + 1, Len(s))

\* the 1-based position of the first occurrence of character c in s, 0 if none
Find(s, c) ==
    IF \E i \in DOMAIN s : s[i] = c
    THEN CHOOSE i \in DOMAIN s : s[i] = c /\ \A j \in 1..(i - 1) : s[j] # c
    ELSE 0

RECURSIVE split(_, _)
\* str.split(sep) for a one-character separator: always at least one part
split(s, sep) ==
    LET i == Find(s, sep)
    IN  IF i = 0 THEN <<s>>
        ELSE <<SubSeq(s, 1, i - 1)>> \o split(From(s, i), sep)

\* str.split(sep, 1)
split1(s, sep) ==
    LET i == Find(s, sep)
    IN  IF i = 0 THEN <<s>> ELSE <<SubSeq(s, 1, i - 1), From(s, i)>>

RECURSIVE join(_, _)
\* a variant of join that leaves the separator out
join_nosep(parts, sep) ==
    IF parts = <<>> THEN <<>>
    ELSE parts[1] \o join(Tail(parts), sep)

\* sep.join(parts)
join(parts, sep) ==
    IF parts = <<>> THEN <<>>
    ELSE IF Len(parts) = 1 THEN parts[1]
    ELSE parts[1] \o <<sep>> \o join(Tail(parts), sep)

\* dict(a); .update(b)
Update(a, b) ==
    [k \in (DOMAIN a) \cup (DOMAIN b) |-> IF k \in DOMAIN b THEN b[k] ELSE a[k]]

\* {}
EmptyDict == [k \in {} |-> <<>>]

\* Python's None, where a str or a handler may stand: no str equals it
None == <<"None">>

(***************************************************************************)
(* The re module, as far as the router uses it                             *)
(***************************************************************************)
RECURSIVE ReEscape(_)
\* re.escape(s)
ReEscape(s) ==
    IF s = <<>> THEN <<>>
    ELSE (IF s[1] \in SpecialChars THEN <<"\\", s[1]>> ELSE <<s[1]>>)
         \o ReEscape(Tail(s))

RECURSIVE ReUnescape(_)
\* the text an escaped literal run matches
ReUnescape(e) ==
    IF e = <<>> THEN <<>>
    ELSE IF e[1] = "\\" /\ Len(e) >= 2 THEN <<e[2]>> \o ReUnescape(From(e, 2))
    ELSE <<e[1]>> \o ReUnescape(Tail(e))

\* a variant of ReSegment that also matches the empty string
ReSegmentOrEmpty == <<"[", "^", "\\", "/", "]", "*">>

\* The fragments _parse_var generates
ReSegment == <<"[", "^", "\\", "/", "]", "+">>
ReInt == <<"-", "?", "\\", "d", "+">>
ReFloat == <<"-", "?", "[", "\\", "d", ".", "]", "+">>
RePath == <<".", "*">>

AllIn(s, chars) == \A i \in DOMAIN s : s[i] \in chars
NoneIn(s, chars) == \A i \in DOMAIN s : s[i] \notin chars

\* whether the fragment, taken alone, matches the whole of s: the fragments
\* [^\/]+  [^\/]*  -?\d+  -?[\d.]+  .*  are interpreted, no other
FragmentAccepts(frag, s) ==
    CASE frag = <<"[", "^", "\\", "/", "]", "+">> -> Len(s) >= 1 /\ NoneIn(s, {"/"})
      [] frag = <<"[", "^", "\\", "/", "]", "*">> -> NoneIn(s, {"/"})
      [] frag = <<"-", "?", "\\", "d", "+">> ->
            LET d == IF Len(s) >= 1 /\ s[1] = "-" THEN Tail(s) ELSE s
            IN  Len(d) >= 1 /\ AllIn(d, Digits)
      [] frag = <<"-", "?", "[", "\\", "d", ".", "]", "+">> ->
            LET d == IF Len(s) >= 1 /\ s[1] = "-" THEN Tail(s) ELSE s
            IN  Len(d) >= 1 /\ AllIn(d, Digits \cup {"."})
      [] frag = <<".", "*">> -> NoneIn(s, {NL})
      [] OTHER -> FALSE

NoMatch == [matched |-> FALSE, groupdict |-> EmptyDict]

RECURSIVE ReMatchTokens(_, _)
\* regex.match(text) for the pattern "^" + tokens + "$": greedy groups with
\* backtracking; "$" matches at the end and before a final newline
ReMatchTokens(tokens, text) ==
    IF tokens = <<>>
    THEN IF text = <<>> \/ text = <<NL>>
         THEN [matched |-> TRUE, groupdict |-> EmptyDict]
         ELSE NoMatch
    ELSE LET tok == tokens[1]
         IN  IF ~tok.group
             THEN LET lit == ReUnescape(tok.re)
                  IN  IF Len(text) >= Len(lit) /\ SubSeq(text, 1, Len(lit)) = lit
                      THEN ReMatchTokens(Tail(tokens), From(text, Len(lit)))
                      ELSE NoMatch
             ELSE LET lens == {n \in 0..Len(text) :
                                 /\ FragmentAccepts(tok.re, SubSeq(text, 1, n))
                                 /\ ReMatchTokens(Tail(tokens), From(text, n)).matched}
                  IN  IF lens = {} THEN NoMatch
                      ELSE LET n == CHOOSE n \in lens : \A k \in lens : k <= n
                               rest == ReMatchTokens(Tail(tokens), From(text, n))
                           IN  [matched |-> TRUE,
                                groupdict |->
                                    Update((tok.name :> SubSeq(text, 1, n)),
                                           rest.groupdict)]

\* regex.match(text) of a compiled object
ReMatch(regex, text) == ReMatchTokens(regex.pattern, text)

\* re.compile(regex_str): a new compiled object; id tells apart two objects
\* compiled from the same text
ReCompile(regex_str, id) == [pattern |-> regex_str, id |-> id]

(***************************************************************************)
(* Router._parse_var and Router._split_path                                *)
(***************************************************************************)
\* no exception, and the exceptions the router raises
NoError == "NoError"
ValueError == "ValueError"
RouteError == "RouteError"

\* the exceptions an "except LookupError" clause catches: RouteError derives
\* from Error, and Error from Exception
LookupErrors == {"LookupError", "KeyError", "IndexError"}

RECURSIVE VarSplit(_)
\* list(i for i in self._VAR_SPLIT_RE.split(part) if i), _VAR_SPLIT_RE being
\* "(<.*?>)": the leftmost "<" that has a ">" after it on the same line opens
\* a placeholder that its first ">" closes; the text between placeholders is
\* kept; empty strings are dropped
VarSplit(s) ==
    LET opens == {i \in DOMAIN s :
                    /\ s[i] = "<"
                    /\ \E j \in (i + 1)..Len(s) :
                          s[j] = ">" /\ \A k \in (i + 1)..(j - 1) : s[k] # NL}
    IN  IF opens = {} THEN (IF s = <<>> THEN <<>> ELSE <<s>>)
        ELSE LET i == CHOOSE i \in opens : \A k \in opens : i <= k
                 j == i + Find(From(s, i), ">")
             IN  (IF i > 1 THEN <<SubSeq(s, 1, i - 1)>> ELSE <<>>)
                 \o <<SubSeq(s, i, j)>>
                 \o VarSplit(From(s, j))

\* s[0:n] == prefix
StartsWith(s, prefix) ==
    Len(s) >= Len(prefix) /\ SubSeq(s, 1, Len(prefix)) = prefix

\* Router._parse_var: (matchall, "(?P<name>regex)"), or ValueError
_parse_var(part) ==
    LET parts == split1(part, ":")
        name == parts[1]
        vartype == parts[2]
        Ok(matchall, regex) ==
            [error |-> NoError, matchall |-> matchall,
             regex |-> [group |-> TRUE, name |-> name, re |-> regex]]
    IN  IF Len(parts) = 1 THEN Ok(FALSE, ReSegment)
        ELSE IF vartype = <<"i", "n", "t">> THEN Ok(FALSE, ReInt)
        ELSE IF vartype = <<"f", "l", "o", "a", "t">> THEN Ok(FALSE, ReFloat)
        ELSE IF vartype = <<"p", "a", "t", "h">> THEN Ok(TRUE, RePath)
        ELSE IF StartsWith(vartype, <<"r", "e", ":">>)
             THEN Ok(FALSE, From(vartype, 3))
        ELSE IF StartsWith(vartype, <<"r", "e", "*", ":">>)
             THEN Ok(TRUE, From(vartype, 4))
        ELSE [error |-> ValueError, matchall |-> FALSE,
              regex |-> [group |-> TRUE, name |-> name, re |-> <<>>]]

RECURSIVE ConvertMatches(_, _, _, _)
\* the inner loop of _split_path over the pieces of one part, from 1-based
\* piece m on; lastpart is poffset = len(parts) - 1; acc holds the result
\* for the pieces before m
ConvertMatches(matches, m, lastpart, acc) ==
    IF m > Len(matches) THEN acc
    ELSE LET match == matches[m]
         IN  IF match[1] = "<" /\ match[Len(match)] = ">"
             THEN LET var == _parse_var(SubSeq(match, 2, Len(match) - 1))
                  IN  IF var.error # NoError THEN [acc EXCEPT !.error = var.error]
                      ELSE IF var.matchall /\ ~lastpart
                           THEN [acc EXCEPT !.error = ValueError]
                      ELSE IF var.matchall /\ m < Len(matches)
                           THEN [acc EXCEPT !.error = ValueError]
                      ELSE ConvertMatches(matches, m + 1, lastpart,
                               [acc EXCEPT !.re_found = TRUE,
                                           !.matchall_found =
                                               acc.matchall_found \/ var.matchall,
                                           !.tokens = Append(acc.tokens, var.regex)])
             ELSE ConvertMatches(matches, m + 1, lastpart,
                      [acc EXCEPT !.tokens =
                          Append(acc.tokens,
                                 [group |-> FALSE, name |-> <<>>,
                                  re |-> ReEscape(match)])])

\* a literal segment, and a dynamic segment: the tuple (matchall, regex)
Literal(text) == [tuple |-> FALSE, text |-> text]
Dynamic(matchall, regex) == [tuple |-> TRUE, matchall |-> matchall, regex |-> regex]

\* a variant of Intern that compiles the text each time: no cache lookup
InternCompilesAgain(cache, regex_str) ==
    Update(cache,
           (regex_str :> ReCompile(regex_str,
                             IF regex_str \in DOMAIN cache
                             THEN cache[regex_str].id + Cardinality(DOMAIN cache)
                             ELSE Cardinality(DOMAIN cache) + 1)))

\* self._re_cache.get(regex_str), compiling and storing it when absent
Intern(cache, regex_str) ==
    IF regex_str \in DOMAIN cache THEN cache
    ELSE Update(cache, (regex_str :> ReCompile(regex_str, Cardinality(DOMAIN cache) + 1)))

RECURSIVE SplitParts(_, _, _)
\* the outer loop of _split_path from 1-based part p on: the converted parts,
\* the cache as the loop leaves it, and the error that ended the loop, if any
SplitParts(parts, p, cache) ==
    IF p > Len(parts) THEN [error |-> NoError, parts |-> parts, cache |-> cache]
    ELSE LET conv == ConvertMatches(VarSplit(parts[p]), 1, p = Len(parts),
                         [error |-> NoError, re_found |-> FALSE,
                          matchall_found |-> FALSE, tokens |-> <<>>])
         IN  IF conv.error # NoError
             THEN [error |-> conv.error, parts |-> parts, cache |-> cache]
             ELSE IF conv.re_found
                  THEN LET cache2 == Intern(cache, conv.tokens)
                       IN  SplitParts(
                               [parts EXCEPT ![p] =
                                   Dynamic(conv.matchall_found, cache2[conv.tokens])],
                               p + 1, cache2)
                  ELSE SplitParts([parts EXCEPT ![p] = Literal(parts[p])],
                                  p + 1, cache)

\* Router._split_path
_split_path(path, cache) == SplitParts(split(path, "/"), 1, cache)

(***************************************************************************)
(* _PathSegment                                                            *)
(***************************************************************************)
\* _PathSegment.__init__
PathSegment == [static |-> <<>>, dynamic |-> <<>>, route |-> None]

\* the result of find_match: None, or the tuple (route, params)
NoneResult == [none |-> TRUE, route |-> None, params |-> EmptyDict]
Result(route, params) == [none |-> FALSE, route |-> route, params |-> params]

\* the position of key in an OrderedDict, 0 when absent
IndexOf(edges, key) ==
    IF \E i \in DOMAIN edges : edges[i].key = key
    THEN CHOOSE i \in DOMAIN edges : edges[i].key = key
    ELSE 0

RECURSIVE find_match(_, _, _, _)
RECURSIVE TryDynamic(_, _, _, _, _)

\* a variant of TryDynamic that returns what the first matching entry gives,
\* found or not
TryDynamicFirstMatch(h, self, k, parts, params) ==
    IF k > Len(h[self].dynamic) THEN NoneResult
    ELSE LET matchall == h[self].dynamic[k].key.matchall
             matched == ReMatch(h[self].dynamic[k].key.regex,
                                IF matchall THEN join(parts, "/") ELSE parts[1])
         IN  IF matched.matched
             THEN find_match(h, h[self].dynamic[k].child,
                             IF matchall THEN <<>> ELSE Tail(parts),
                             Update(params, matched.groupdict))
             ELSE TryDynamic(h, self, k + 1, parts, params)

\* a variant of TryDynamic that updates params in place: no clone
TryDynamicShared(h, self, k, parts, params) ==
    IF k > Len(h[self].dynamic) THEN NoneResult
    ELSE LET matchall == h[self].dynamic[k].key.matchall
             matched == ReMatch(h[self].dynamic[k].key.regex,
                                IF matchall THEN join(parts, "/") ELSE parts[1])
             matched_params == Update(params, matched.groupdict)
             result == find_match(h, h[self].dynamic[k].child,
                                  IF matchall THEN <<>> ELSE Tail(parts),
                                  matched_params)
         IN  IF matched.matched /\ ~result.none THEN result
             ELSE TryDynamic(h, self, k + 1, parts,
                             IF matched.matched THEN matched_params ELSE params)

\* a variant of TryDynamic that hands the child of a matchall entry the
\* parts after the first, as it does for the other entries
TryDynamicKeepsRest(h, self, k, parts, params) ==
    IF k > Len(h[self].dynamic) THEN NoneResult
    ELSE LET matchall == h[self].dynamic[k].key.matchall
             matched == ReMatch(h[self].dynamic[k].key.regex,
                                IF matchall THEN join(parts, "/") ELSE parts[1])
             result == find_match(h, h[self].dynamic[k].child, Tail(parts),
                                  Update(params, matched.groupdict))
         IN  IF matched.matched /\ ~result.none THEN result
             ELSE TryDynamic(h, self, k + 1, parts, params)

\* the loop of find_match over self.dynamic, from its k-th entry on
TryDynamic(h, self, k, parts, params) ==
    IF k > Len(h[self].dynamic) THEN NoneResult
    ELSE LET matchall == h[self].dynamic[k].key.matchall
             regex == h[self].dynamic[k].key.regex
             matchpart == IF matchall THEN join(parts, "/") ELSE parts[1]
             matched == ReMatch(regex, matchpart)
             matched_params == Update(params, matched.groupdict)
             subparts == IF matchall THEN <<>> ELSE Tail(parts)
             result == find_match(h, h[self].dynamic[k].child, subparts,
                                  matched_params)
         IN  IF matched.matched /\ ~result.none THEN result
             ELSE TryDynamic(h, self, k + 1, parts, params)

\* a variant of find_match that checks the dynamic entries first
find_match_dynamic_first(h, self, parts, params) ==
    IF parts = <<>>
    THEN IF h[self].route # None THEN Result(h[self].route, params)
         ELSE NoneResult
    ELSE LET s == IndexOf(h[self].static, parts[1])
             result == TryDynamic(h, self, 1, parts, params)
         IN  IF ~result.none THEN result
             ELSE IF s # 0
             THEN find_match(h, h[self].static[s].child, Tail(parts), params)
             ELSE NoneResult

\* _PathSegment.find_match on the node self of heap h
find_match(h, self, parts, params) ==
    IF parts = <<>>
    THEN IF h[self].route # None THEN Result(h[self].route, params)
         ELSE NoneResult
    ELSE LET part == parts[1]
             s == IndexOf(h[self].static, part)
             result == IF s # 0
                       THEN find_match(h, h[self].static[s].child, Tail(parts),
                                       params)
                       ELSE NoneResult
         IN  IF ~result.none THEN result
             ELSE TryDynamic(h, self, 1, parts, params)

(***************************************************************************)
(* Router                                                                  *)
(***************************************************************************)
VARIABLES
    routes,     \* Router._routes: method -> root _PathSegment (index in heap)
    named,      \* Router._named: method -> (name -> template)
    re_cache,   \* Router._re_cache: regex text -> compiled object
    heap,       \* the _PathSegment objects, in allocation order
    call,       \* the last call made and its arguments
    ret,        \* what that call returned or raised
    regd,       \* history: (method in lower case, template) -> handler of
                \* the last registration of the template that returned
    regn,       \* history: (method in lower case, name) -> template of the
                \* last registration under the name that returned
    before,     \* history: the router and regd as they were before the last
                \* call
    active      \* thread -> the lookup it is in the middle of, Idle if none

vars == <<routes, named, re_cache, heap, call, ret, regd, regn, before, active>>

\* the router as it is, with regd
Snapshot ==
    [routes |-> routes, named |-> named, re_cache |-> re_cache, heap |-> heap,
     regd |-> regd]

\* the threads that make lookups concurrently
Threads == {1, 2}

\* a thread that is in no call
Idle == [op |-> "idle"]

\* the key (matchall, regex) of a dynamic edge
DynKey(part) == [matchall |-> part.matchall, regex |-> part.regex]

\* a variant of SetDefault that puts a new entry first
SetDefaultFront(h, target, part) ==
    LET field == IF part.tuple THEN "dynamic" ELSE "static"
        key == IF part.tuple THEN DynKey(part) ELSE part.text
        i == IndexOf(h[target][field], key)
    IN  IF i # 0 THEN [heap |-> h, target |-> h[target][field][i].child]
        ELSE [heap |-> Append([h EXCEPT ![target][field] =
                                  <<[key |-> key, child |-> Len(h) + 1]>> \o @],
                              PathSegment),
              target |-> Len(h) + 1]

\* a variant of SetDefault that stores a new node under the key whether or
\* not the key is present: target.dynamic[part] = _PathSegment()
SetDefaultReplaces(h, target, part) ==
    LET field == IF part.tuple THEN "dynamic" ELSE "static"
        key == IF part.tuple THEN DynKey(part) ELSE part.text
        i == IndexOf(h[target][field], key)
        entry == [key |-> key, child |-> Len(h) + 1]
    IN  [heap |-> Append([h EXCEPT ![target][field] =
                             IF i # 0 THEN [@ EXCEPT ![i] = entry]
                             ELSE Append(@, entry)],
                         PathSegment),
         target |-> Len(h) + 1]

\* target.dynamic.setdefault(part, _PathSegment()) and
\* target.static.setdefault(part, _PathSegment()): the heap afterwards and
\* the node the call returns
SetDefault(h, target, part) ==
    LET field == IF part.tuple THEN "dynamic" ELSE "static"
        key == IF part.tuple THEN DynKey(part) ELSE part.text
        i == IndexOf(h[target][field], key)
    IN  IF i # 0 THEN [heap |-> h, target |-> h[target][field][i].child]
        ELSE [heap |-> Append([h EXCEPT ![target][field] =
                                  Append(@, [key |-> key, child |-> Len(h) + 1])],
                              PathSegment),
              target |-> Len(h) + 1]

RECURSIVE Insert(_, _, _, _)
\* the loop of register over segments, from its i-th segment on
Insert(h, target, segments, i) ==
    IF i > Len(segments) THEN [heap |-> h, target |-> target]
    ELSE LET next == SetDefault(h, target, segments[i])
         IN  Insert(next.heap, next.target, segments, i + 1)

\* a variant of NamedStrip that leaves the type in the placeholder
NamedStripKeepsType(s) == s

RECURSIVE NamedStrip(_)
\* self._NAMED_STRIP_RE.sub("<\\1>", path), _NAMED_STRIP_RE being
\* "<([a-zA-Z0-9_]+)(:[^>]+)?>"
NamedStrip(s) ==
    IF s = <<>> THEN <<>>
    ELSE LET n == CHOOSE n \in 0..(Len(s) - 1) :
                      /\ \A k \in 2..(n + 1) : s[k] \in WordChars
                      /\ n + 2 > Len(s) \/ s[n + 2] \notin WordChars
             after == From(s, n + 1)
             close == Find(after, ">")
             matches == /\ s[1] = "<"
                        /\ n >= 1
                        /\ after # <<>>
                        /\ \/ after[1] = ">"
                           \/ after[1] = ":" /\ close >= 3
         IN  IF matches
             THEN <<"<">> \o SubSeq(s, 2, n + 1) \o <<">">>
                  \o NamedStrip(From(after, close))
             ELSE <<s[1]>> \o NamedStrip(Tail(s))

\* str(value) of a str or an int
PyStr(v) == [type |-> "str", v |-> v]
PyInt(n) == [type |-> "int", n |-> n]

RECURSIVE Decimal(_)
Decimal(n) ==
    LET digit == <<"0", "1", "2", "3", "4", "5", "6", "7", "8", "9">>[(n % 10) + 1]
    IN  IF n < 10 THEN <<digit>> ELSE Decimal(n \div 10) \o <<digit>>

str(value) ==
    IF value.type = "str" THEN value.v
    ELSE IF value.n < 0 THEN <<"-">> \o Decimal(-value.n)
    ELSE Decimal(value.n)

RECURSIVE NamedReplace(_, _)
\* self._NAMED_REPLACE_RE.sub(subfn, template), _NAMED_REPLACE_RE being
\* "<([a-zA-Z0-9_]+)>": the text, or the error subfn raised and the key
\* its message ends with
NamedReplace(s, params) ==
    IF s = <<>> THEN [error |-> NoError, text |-> <<>>, key |-> <<>>]
    ELSE LET n == CHOOSE n \in 0..(Len(s) - 1) :
                      /\ \A k \in 2..(n + 1) : s[k] \in WordChars
                      /\ n + 2 > Len(s) \/ s[n + 2] \notin WordChars
             matches == s[1] = "<" /\ n >= 1 /\ n + 2 <= Len(s) /\ s[n + 2] = ">"
             key == SubSeq(s, 2, n + 1)
             rest == NamedReplace(IF matches THEN From(s, n + 2) ELSE Tail(s),
                                  params)
         IN  IF matches /\ key \notin DOMAIN params
             THEN [error |-> RouteError, text |-> <<>>, key |-> key]
             ELSE IF rest.error # NoError THEN rest
             ELSE [error |-> NoError,
                   text |-> (IF matches THEN str(params[key]) ELSE <<s[1]>>)
                            \o rest.text,
                   key |-> <<>>]

\* an argument left out of a call, and the method it defaults to
Omitted == <<"omitted">>
MethodOf(method) == IF method = Omitted THEN <<"G", "E", "T">> ELSE method

\* WsgiApp.handle_notfound
HandleNotFound == <<"handle_notfound">>

\* what a call returned, and what it raised: the value is a result of
\* find_match, NoneResult for a call that returns None or raises
Return(value) ==[raised |-> NoError, value |-> value]
Raise(error) == [raised |-> error, value |-> NoneResult]

\* the messages of the RouteError that Router.get raises, and raising an
\* error with a message made of one of them and the name or key it is about
NoSuchNamedPath == "No such named path: "
NoParameter == "No parameter for named path: "
RaiseMessage(error, text, about) ==
    [raised |-> error, value |-> None, message |-> [text |-> text, about |-> about]]
\* the str that Router.get returned, with no message
ReturnStr(text) ==
    [raised |-> NoError, value |-> text, message |-> [text |-> "", about |-> <<>>]]

\* Router.__init__
Init ==
    /\ routes = EmptyDict
    /\ named = EmptyDict
    /\ re_cache = EmptyDict
    /\ heap = <<>>
    /\ call = [op |-> "__init__"]
    /\ ret = Return(NoneResult)
    /\ regd = EmptyDict
    /\ regn = EmptyDict
    /\ before = Snapshot
    /\ active = [t \in Threads |-> Idle]

\* a variant of register that enters the name before it compiles the path
register_name_first(path, route, name, method) ==
    LET m == upper(MethodOf(method))
        heap1 == IF m \in DOMAIN routes THEN heap ELSE Append(heap, PathSegment)
        routes1 == IF m \in DOMAIN routes THEN routes
                   ELSE Update(routes, (m :> Len(heap1)))
        segments == _split_path(path, re_cache)
        leaf == Insert(heap1, routes1[m], segments.parts, 1)
        names == IF m \in DOMAIN named THEN named[m] ELSE EmptyDict
    IN  /\ call' = [op |-> "register", path |-> path, route |-> route,
                    name |-> name, method |-> method]
        /\ routes' = routes1
        /\ re_cache' = segments.cache
        /\ named' = IF name = None THEN named
                    ELSE Update(named,
                             (m :> Update(names, (name :> NamedStrip(path)))))
        /\ IF segments.error # NoError
           THEN /\ heap' = heap1
                /\ ret' = Raise(segments.error)
                /\ UNCHANGED <<regd, regn>>
           ELSE /\ heap' = [leaf.heap EXCEPT ![leaf.target].route = route]
                /\ regd' = Update(regd, (<<Fold(MethodOf(method)), path>> :> route))
                /\ regn' = IF name = None THEN regn
                           ELSE Update(regn, (<<Fold(MethodOf(method)), name>> :> path))
                /\ ret' = Return(NoneResult)
        /\ before' = Snapshot
        /\ UNCHANGED active

\* a variant of register that starts the method's trie afresh at each call
register_rebuilds(path, route, name, method) ==
    LET m == upper(MethodOf(method))
        heap1 == Append(heap, PathSegment)
        routes1 == Update(routes, (m :> Len(heap1)))
        segments == _split_path(path, re_cache)
        leaf == Insert(heap1, routes1[m], segments.parts, 1)
        names == IF m \in DOMAIN named THEN named[m] ELSE EmptyDict
    IN  /\ call' = [op |-> "register", path |-> path, route |-> route,
                    name |-> name, method |-> method]
        /\ routes' = routes1
        /\ re_cache' = segments.cache
        /\ IF segments.error # NoError
           THEN /\ heap' = heap1
                /\ ret' = Raise(segments.error)
                /\ UNCHANGED <<named, regd, regn>>
           ELSE /\ heap' = [leaf.heap EXCEPT ![leaf.target].route = route]
                /\ named' = IF name = None THEN named
                            ELSE Update(named,
                                     (m :> Update(names, (name :> NamedStrip(path)))))
                /\ regd' = Update(regd, (<<Fold(MethodOf(method)), path>> :> route))
                /\ regn' = IF name = None THEN regn
                           ELSE Update(regn, (<<Fold(MethodOf(method)), name>> :> path))
                /\ ret' = Return(NoneResult)
        /\ before' = Snapshot
        /\ UNCHANGED active

\* Router.register(path, route, name, method)
register(path, route, name, method) ==
    LET m == upper(MethodOf(method))
        heap1 == IF m \in DOMAIN routes THEN heap ELSE Append(heap, PathSegment)
        routes1 == IF m \in DOMAIN routes THEN routes
                   ELSE Update(routes, (m :> Len(heap1)))
        segments == _split_path(path, re_cache)
        leaf == Insert(heap1, routes1[m], segments.parts, 1)
        names == IF m \in DOMAIN named THEN named[m] ELSE EmptyDict
    IN  /\ call' = [op |-> "register", path |-> path, route |-> route,
                    name |-> name, method |-> method]
        /\ routes' = routes1
        /\ re_cache' = segments.cache
        /\ IF segments.error # NoError
           THEN /\ heap' = heap1
                /\ ret' = Raise(segments.error)
                /\ UNCHANGED <<named, regd, regn>>
           ELSE /\ heap' = [leaf.heap EXCEPT ![leaf.target].route = route]
                /\ named' = IF name = None THEN named
                            ELSE Update(named,
                                     (m :> Update(names, (name :> NamedStrip(path)))))
                /\ regd' = Update(regd, (<<Fold(MethodOf(method)), path>> :> route))
                /\ regn' = IF name = None THEN regn
                           ELSE Update(regn, (<<Fold(MethodOf(method)), name>> :> path))
                /\ ret' = Return(NoneResult)
        /\ before' = Snapshot
        /\ UNCHANGED active

\* a variant of Router_route that drops the empty segment a leading "/" gives
Router_route_strip(path, method) ==
    LET m == upper(MethodOf(method))
        all == split(path, "/")
        parts == IF Len(all) > 1 /\ all[1] = <<>> THEN Tail(all) ELSE all
    IN  IF m \notin DOMAIN routes THEN Return(NoneResult)
        ELSE Return(find_match(heap, routes[m], parts, EmptyDict))

\* a variant of Router_route that raises LookupError for a path not found
Router_route_raise(path, method) ==
    LET m == upper(MethodOf(method))
        result == find_match(heap, routes[m], split(path, "/"), EmptyDict)
    IN  IF m \notin DOMAIN routes THEN Raise("KeyError")
        ELSE IF result.none THEN Raise("LookupError")
        ELSE Return(result)

\* what Router.route(path, method) returns or raises in the current state
Router_route(path, method) ==
    LET m == upper(MethodOf(method))
        parts == split(path, "/")
    IN  IF m \notin DOMAIN routes THEN Return(NoneResult)
        ELSE Return(find_match(heap, routes[m], parts, EmptyDict))

\* Router.route(path, method)
route(path, method) ==
    /\ call' = [op |-> "route", path |-> path, method |-> method]
    /\ ret' = Router_route(path, method)
    /\ before' = Snapshot
    /\ UNCHANGED <<routes, named, re_cache, heap, regd, regn, active>>

\* what Router.get(name, params, method) returns or raises in the current
\* state
Router_get(name, params, method) ==
    LET m == upper(MethodOf(method))
        path == NamedReplace(named[m][name], params)
    IN  IF m \notin DOMAIN named
        THEN RaiseMessage(RouteError, NoSuchNamedPath, name)
        ELSE IF name \notin DOMAIN named[m]
        THEN RaiseMessage(RouteError, NoSuchNamedPath, name)
        ELSE IF path.error # NoError
        THEN RaiseMessage(path.error, NoParameter, path.key)
        ELSE ReturnStr(path.text)

\* Router.get(name, params, method)
get(name, params, method) ==
    /\ call' = [op |-> "get", name |-> name, params |-> params,
                method |-> method]
    /\ ret' = Router_get(name, params, method)
    /\ before' = Snapshot
    /\ UNCHANGED <<routes, named, re_cache, heap, regd, regn, active>>

\* WsgiApp.handle_request(exchange) for a request with the given method and
\* path_info: the handler it runs and the parameters it adds to the request
handle_request(path, method) ==
    LET result == Router_route(path, upper(method))
    IN  /\ call' = [op |-> "handle_request", path |-> path, method |-> method]
        /\ ret' = IF result.raised # NoError THEN result
                  ELSE IF result.value.none
                  THEN Return([ran |-> HandleNotFound, params |-> EmptyDict])
                  ELSE Return([ran |-> result.value.route,
                               params |-> result.value.params])
        /\ before' = Snapshot
    /\ UNCHANGED <<routes, named, re_cache, heap, regd, regn, active>>

(***************************************************************************)
(* Lookups made by several threads at once: a call of route or get is a    *)
(* sequence of steps, one for each statement that reads the router, and    *)
(* the steps of the threads interleave                                     *)
(***************************************************************************)
\* no thread is in the middle of a lookup
NoLookup == \A t \in Threads : active[t].op = "idle"

\* the calls the threads other than t are in
Others(t) == { active[u].op : u \in Threads \ {t} }

\* the call c of thread t returns or raises: call and ret tell it, with the
\* calls the other threads were in, and before is the router as it was when
\* the call began
Returns(t, c, outcome) ==
    /\ call' = c
    /\ ret' = outcome
    /\ before' = active[t].began
    /\ active' = [active EXCEPT ![t] = Idle]

\* thread t calls Router.route(path, method)
begin_route(t, path, method) ==
    /\ active[t].op = "idle"
    /\ active' = [active EXCEPT ![t] =
                      [op |-> "route", pc |-> "method", path |-> path,
                       method |-> method, began |-> Snapshot]]
    /\ UNCHANGED <<routes, named, re_cache, heap, call, ret, regd, regn, before>>

\* a variant of route_method that gives a method without a trie an empty one
route_method_setdefault(t) ==
    LET self == active[t]
        m == upper(MethodOf(self.method))
    IN  /\ self.op = "route"
        /\ self.pc = "method"
        /\ heap' = IF m \in DOMAIN routes THEN heap ELSE Append(heap, PathSegment)
        /\ routes' = IF m \in DOMAIN routes THEN routes
                     ELSE Update(routes, (m :> Len(heap) + 1))
        /\ active' = [active EXCEPT ![t].pc = "find_match"]
        /\ UNCHANGED <<named, re_cache, regd, regn, call, ret, before>>

\* Router.route in thread t: "if method not in self._routes: return None"
route_method(t) ==
    LET self == active[t]
        m == upper(MethodOf(self.method))
    IN  /\ self.op = "route"
        /\ self.pc = "method"
        /\ IF m \notin DOMAIN routes
           THEN Returns(t, [op |-> "route", path |-> self.path,
                            method |-> self.method, among |-> Others(t)],
                        Return(NoneResult))
           ELSE /\ active' = [active EXCEPT ![t].pc = "find_match"]
                /\ UNCHANGED <<call, ret, before>>
        /\ UNCHANGED <<routes, named, re_cache, heap, regd, regn>>

\* Router.route in thread t: "return self._routes[method].find_match(...)"
route_find_match(t) ==
    LET self == active[t]
        m == upper(MethodOf(self.method))
    IN  /\ self.op = "route"
        /\ self.pc = "find_match"
        /\ Returns(t, [op |-> "route", path |-> self.path,
                       method |-> self.method, among |-> Others(t)],
                   IF m \notin DOMAIN routes THEN Raise("KeyError")
                   ELSE Return(find_match(heap, routes[m],
                                          split(self.path, "/"), EmptyDict)))
        /\ UNCHANGED <<routes, named, re_cache, heap, regd, regn>>

\* thread t calls Router.get(name, params, method)
begin_get(t, name, params, method) ==
    /\ active[t].op = "idle"
    /\ active' = [active EXCEPT ![t] =
                      [op |-> "get", pc |-> "method", name |-> name,
                       params |-> params, method |-> method,
                       began |-> Snapshot]]
    /\ UNCHANGED <<routes, named, re_cache, heap, call, ret, regd, regn, before>>

\* the call of get that thread t is in
GetCall(t) ==
    [op |-> "get", name |-> active[t].name, params |-> active[t].params,
     method |-> active[t].method, among |-> Others(t)]

\* Router.get in thread t: "if method not in self._named: raise"
get_method(t) ==
    LET self == active[t]
        m == upper(MethodOf(self.method))
    IN  /\ self.op = "get"
        /\ self.pc = "method"
        /\ IF m \notin DOMAIN named
           THEN Returns(t, GetCall(t),
                        RaiseMessage(RouteError, NoSuchNamedPath, self.name))
           ELSE /\ active' = [active EXCEPT ![t].pc = "name"]
                /\ UNCHANGED <<call, ret, before>>
        /\ UNCHANGED <<routes, named, re_cache, heap, regd, regn>>

\* Router.get in thread t: "if name not in self._named[method]: raise"
get_name(t) ==
    LET self == active[t]
        m == upper(MethodOf(self.method))
    IN  /\ self.op = "get"
        /\ self.pc = "name"
        /\ IF m \notin DOMAIN named
           THEN Returns(t, GetCall(t), RaiseMessage("KeyError", "", m))
           ELSE IF self.name \notin DOMAIN named[m]
           THEN Returns(t, GetCall(t),
                        RaiseMessage(RouteError, NoSuchNamedPath, self.name))
           ELSE /\ active' = [active EXCEPT ![t].pc = "sub"]
                /\ UNCHANGED <<call, ret, before>>
        /\ UNCHANGED <<routes, named, re_cache, heap, regd, regn>>

\* Router.get in thread t: "return self._NAMED_REPLACE_RE.sub(subfn,
\* self._named[method][name])"
get_sub(t) ==
    LET self == active[t]
        m == upper(MethodOf(self.method))
        path == NamedReplace(named[m][self.name], self.params)
    IN  /\ self.op = "get"
        /\ self.pc = "sub"
        /\ Returns(t, GetCall(t),
                   IF m \notin DOMAIN named
                   THEN RaiseMessage("KeyError", "", m)
                   ELSE IF self.name \notin DOMAIN named[m]
                   THEN RaiseMessage("KeyError", "", self.name)
                   ELSE IF path.error # NoError
                   THEN RaiseMessage(path.error, NoParameter, path.key)
                   ELSE ReturnStr(path.text))
        /\ UNCHANGED <<routes, named, re_cache, heap, regd, regn>>

(***************************************************************************)
(* A register call made by one thread while another thread is in a lookup: *)
(* register is a sequence of steps, one for each statement that writes the *)
(* router, and find_match a sequence of steps over a stack of calls, one   *)
(* for each statement that reads a node                                    *)
(***************************************************************************)
\* the thread that registers, and the thread that looks up
Writer == 1
Reader == 2

\* the Writer calls Router.register(path, route, name, method), route being
\* the handler
begin_register(path, handler, name, method) ==
    /\ active[Writer].op = "idle"
    /\ active' = [active EXCEPT ![Writer] =
                      [op |-> "register", pc |-> "method", path |-> path,
                       route |-> handler, name |-> name, method |-> method,
                       began |-> Snapshot, target |-> 0, segments |-> <<>>,
                       k |-> 1]]
    /\ UNCHANGED <<routes, named, re_cache, heap, call, ret, regd, regn, before>>

\* the register call of the Writer returns or raises: call and ret tell it,
\* before is the router as it was when the call began, and regd and regn
\* take the registration when it returned
RegisterReturns(outcome) ==
    LET self == active[Writer]
        key == Fold(MethodOf(self.method))
    IN  /\ call' = [op |-> "register", path |-> self.path, route |-> self.route,
                    name |-> self.name, method |-> self.method]
        /\ ret' = outcome
        /\ before' = self.began
        /\ active' = [active EXCEPT ![Writer].pc = "returned"]
        /\ regd' = IF outcome.raised # NoError THEN regd
                   ELSE Update(regd, (<<key, self.path>> :> self.route))
        /\ regn' = IF outcome.raised # NoError \/ self.name = None THEN regn
                   ELSE Update(regn, (<<key, self.name>> :> self.path))

\* Router.register in the Writer: "if method in self._routes: ... else:
\* target = self._routes[method] = _PathSegment()"
register_method ==
    LET self == active[Writer]
        m == upper(MethodOf(self.method))
        heap1 == IF m \in DOMAIN routes THEN heap ELSE Append(heap, PathSegment)
        routes1 == IF m \in DOMAIN routes THEN routes
                   ELSE Update(routes, (m :> Len(heap1)))
    IN  /\ self.op = "register"
        /\ self.pc = "method"
        /\ heap' = heap1
        /\ routes' = routes1
        /\ active' = [active EXCEPT ![Writer].pc = "split",
                                    ![Writer].target = routes1[m]]
        /\ UNCHANGED <<named, re_cache, call, ret, regd, regn, before>>

\* Router.register in the Writer: "segments = self._split_path(path)"
register_split ==
    LET self == active[Writer]
        segments == _split_path(self.path, re_cache)
    IN  /\ self.op = "register"
        /\ self.pc = "split"
        /\ re_cache' = segments.cache
        /\ IF segments.error # NoError
           THEN RegisterReturns(Raise(segments.error))
           ELSE /\ active' = [active EXCEPT ![Writer].pc = "insert",
                                            ![Writer].segments = segments.parts,
                                            ![Writer].k = 1]
                /\ UNCHANGED <<call, ret, regd, regn, before>>
        /\ UNCHANGED <<routes, named, heap>>

\* Router.register in the Writer: one pass of "for part in segments:
\* target = target.dynamic.setdefault(part, _PathSegment())", or static
register_insert ==
    LET self == active[Writer]
        next == SetDefault(heap, self.target, self.segments[self.k])
    IN  /\ self.op = "register"
        /\ self.pc = "insert"
        /\ heap' = next.heap
        /\ active' = [active EXCEPT
                          ![Writer].target = next.target,
                          ![Writer].k = self.k + 1,
                          ![Writer].pc = IF self.k = Len(self.segments)
                                         THEN "route" ELSE "insert"]
        /\ UNCHANGED <<routes, named, re_cache, call, ret, regd, regn, before>>

\* Router.register in the Writer: "target.route = route", and the return
\* when no name is given
register_route ==
    LET self == active[Writer]
    IN  /\ self.op = "register"
        /\ self.pc = "route"
        /\ heap' = [heap EXCEPT ![self.target].route = self.route]
        /\ IF self.name = None
           THEN RegisterReturns(Return(NoneResult))
           ELSE /\ active' = [active EXCEPT ![Writer].pc = "named"]
                /\ UNCHANGED <<call, ret, regd, regn, before>>
        /\ UNCHANGED <<routes, named, re_cache>>

\* Router.register in the Writer: "if method not in self._named:
\* self._named[method] = {}"
register_named ==
    LET self == active[Writer]
        m == upper(MethodOf(self.method))
    IN  /\ self.op = "register"
        /\ self.pc = "named"
        /\ named' = IF m \in DOMAIN named THEN named
                    ELSE Update(named, (m :> EmptyDict))
        /\ active' = [active EXCEPT ![Writer].pc = "name"]
        /\ UNCHANGED <<routes, re_cache, heap, call, ret, regd, regn, before>>

\* Router.register in the Writer: "self._named[method][name] =
\* self._NAMED_STRIP_RE.sub(...)", and the return
register_name ==
    LET self == active[Writer]
        m == upper(MethodOf(self.method))
    IN  /\ self.op = "register"
        /\ self.pc = "name"
        /\ named' = [named EXCEPT ![m] =
                        Update(@, (self.name :> NamedStrip(self.path)))]
        /\ RegisterReturns(Return(NoneResult))
        /\ UNCHANGED <<routes, re_cache, heap>>

\* a call of find_match on the stack of a thread: its arguments, the
\* statement it is at, and the iterator of its loop over self.dynamic, which
\* is the position of the next entry and the number of entries the dict had
\* when the loop began
Frame(self, parts, params) ==
    [self |-> self, parts |-> parts, params |-> params, pc |-> "enter",
     k |-> 1, size |-> 0]

\* the call of route that thread t is in
RouteCall(t) ==
    [op |-> "route", path |-> active[t].path, method |-> active[t].method,
     among |-> Others(t)]

\* Router.route in thread t: "self._routes[method].find_match(parts, params)",
\* the call
route_root(t) ==
    LET self == active[t]
        m == upper(MethodOf(self.method))
    IN  /\ self.op = "route"
        /\ self.pc = "find_match"
        /\ IF m \notin DOMAIN routes
           THEN Returns(t, RouteCall(t), Raise("KeyError"))
           ELSE /\ active' = [active EXCEPT ![t] =
                                [op |-> "route", pc |-> "frames",
                                 path |-> self.path, method |-> self.method,
                                 began |-> self.began,
                                 stack |-> <<Frame(routes[m],
                                                   split(self.path, "/"),
                                                   EmptyDict)>>]]
                /\ UNCHANGED <<call, ret, before>>
        /\ UNCHANGED <<routes, named, re_cache, heap, regd, regn>>

\* the innermost call of find_match in thread t returns None: route returns
\* None when it is the only call, else the caller goes on, to its loop over
\* self.dynamic after the static entry and to the next entry within the loop
FrameReturnsNone(t) ==
    LET stack == active[t].stack
        n == Len(stack)
        caller == stack[n - 1]
    IN  IF n = 1
        THEN Returns(t, RouteCall(t), Return(NoneResult))
        ELSE /\ active' = [active EXCEPT ![t].stack =
                              Append(SubSeq(stack, 1, n - 2),
                                     [caller EXCEPT !.pc =
                                         IF caller.pc = "static" THEN "iter"
                                         ELSE "next"])]
             /\ UNCHANGED <<call, ret, before>>

\* find_match in thread t, from its first statement to the call for the
\* static entry: a result that is not None is returned by every caller
find_match_enter(t) ==
    LET self == active[t]
        n == Len(self.stack)
        top == self.stack[n]
        s == IndexOf(heap[top.self].static, top.parts[1])
    IN  /\ self.op = "route"
        /\ self.pc = "frames"
        /\ top.pc = "enter"
        /\ IF top.parts = <<>>
           THEN IF heap[top.self].route # None
                THEN Returns(t, RouteCall(t),
                             Return(Result(heap[top.self].route, top.params)))
                ELSE FrameReturnsNone(t)
           ELSE /\ active' = [active EXCEPT ![t].stack =
                                IF s # 0
                                THEN Append([self.stack EXCEPT ![n].pc = "static"],
                                            Frame(heap[top.self].static[s].child,
                                                  Tail(top.parts), top.params))
                                ELSE [self.stack EXCEPT ![n].pc = "iter"]]
                /\ UNCHANGED <<call, ret, before>>
        /\ UNCHANGED <<routes, named, re_cache, heap, regd, regn>>

\* find_match in thread t: "for (matchall, regex) in self.dynamic", the
\* iterator is made
find_match_iter(t) ==
    LET self == active[t]
        n == Len(self.stack)
        top == self.stack[n]
    IN  /\ self.op = "route"
        /\ self.pc = "frames"
        /\ top.pc = "iter"
        /\ active' = [active EXCEPT ![t].stack =
                         [self.stack EXCEPT ![n].pc = "next", ![n].k = 1,
                              ![n].size = Len(heap[top.self].dynamic)]]
        /\ UNCHANGED <<routes, named, re_cache, heap, call, ret, regd, regn,
                       before>>

\* find_match in thread t: the iterator gives the next entry and the body
\* of the loop runs up to the call for the entry. The iterator of an
\* OrderedDict ends after the last entry the dict had when the loop began,
\* and before that raises RuntimeError when the dict has been added to
find_match_next(t) ==
    LET self == active[t]
        n == Len(self.stack)
        top == self.stack[n]
        entry == heap[top.self].dynamic[top.k]
        matchall == entry.key.matchall
        matchpart == IF matchall THEN join(top.parts, "/") ELSE top.parts[1]
        matched == ReMatch(entry.key.regex, matchpart)
        matched_params == Update(top.params, matched.groupdict)
        subparts == IF matchall THEN <<>> ELSE Tail(top.parts)
    IN  /\ self.op = "route"
        /\ self.pc = "frames"
        /\ top.pc = "next"
        /\ IF top.k > top.size
           THEN FrameReturnsNone(t)
           ELSE IF Len(heap[top.self].dynamic) # top.size
           THEN Returns(t, RouteCall(t), Raise("RuntimeError"))
           ELSE /\ active' = [active EXCEPT ![t].stack =
                                IF matched.matched
                                THEN Append([self.stack EXCEPT
                                                 ![n].pc = "dynamic",
                                                 ![n].k = top.k + 1],
                                            Frame(entry.child, subparts,
                                                  matched_params))
                                ELSE [self.stack EXCEPT ![n].k = top.k + 1]]
                /\ UNCHANGED <<call, ret, before>>
        /\ UNCHANGED <<routes, named, re_cache, heap, regd, regn>>

(***************************************************************************)
(* Specification Spec: templates of one and two segments, literal and      *)
(* dynamic, registered in any order under the default method               *)
(***************************************************************************)
\* at most this many distinct (method, template) pairs are registered
MaxTemplates == 2

_fn1 == <<"_fn1">>
_fn2 == <<"_fn2">>
_fn3 == <<"_fn3">>

GET == <<"G", "E", "T">>
POST == <<"P", "O", "S", "T">>

\* the bound on registrations: a template not yet registered under the
\* method may be registered while fewer than MaxTemplates are
MayRegister(path, method) ==
    \/ <<Fold(MethodOf(method)), path>> \in DOMAIN regd
    \/ Cardinality(DOMAIN regd) < MaxTemplates

Handlers == {_fn1, _fn2}

Templates ==
    { <<>>,
      <<"/">>,
      <<"/", "a">>,
      <<"/", "a", "/", "b">>,
      <<"/", "<", "n", ">">>,
      <<"/", "<", "i", ":", "i", "n", "t", ">">>,
      <<"/", "<", "i", ":", "i", "n", "t", ">", "/", "b">>,
      <<"/", "<", "x", ":", "b", "a", "d", ">">> }

Paths ==
    { <<>>,
      <<"/">>,
      <<"/", "a">>,
      <<"/", "1">>,
      <<"/", "a", "/", "b">>,
      <<"/", "1", "/", "b">>,
      <<"/", "a", "/">> }

\* the route calls made: every path under the default method, and two paths
\* under a method nothing is registered under
RouteCalls ==
    {<<path, Omitted>> : path \in Paths}
    \cup {<<path, POST>> : path \in { <<"/", "a">>, <<"/", "1">> }}

HandleCalls == { <<<<"/", "a">>, <<"g", "e", "t">>>>, <<<<"/", "1">>, POST>> }

Next ==
    \/ \E path \in Templates, h \in Handlers :
          MayRegister(path, Omitted) /\ register(path, h, None, Omitted)
    \/ \E c \in RouteCalls : route(c[1], c[2])
    \/ \E c \in HandleCalls : handle_request(c[1], c[2])

Spec == Init /\ [][Next]_vars

(***************************************************************************)
(* Specification SpecMethods: registrations and lookups under methods in   *)
(* several letter-casings, with names                                      *)
(***************************************************************************)
RegisterMethodArgs == {Omitted, <<"g", "e", "t">>, <<"P", "o", "s", "t">>}

LookupMethodArgs == {Omitted, <<"G", "e", "T">>, <<"p", "O", "S", "T">>}

MethodTemplates == { <<"/", "a">>, <<"/", "<", "n", ">">> }

MethodPaths == { <<"/", "a">>, <<"/", "b">> }

MethodNames == { None, <<"t">> }

MethodParams == { EmptyDict, (<<"n">> :> PyStr(<<"b">>)) }

NextMethods ==
    \/ \E path \in MethodTemplates, name \in MethodNames,
          method \in RegisterMethodArgs :
          MayRegister(path, method) /\ register(path, _fn1, name, method)
    \/ \E path \in MethodPaths, method \in LookupMethodArgs : route(path, method)
    \/ \E params \in MethodParams, method \in LookupMethodArgs :
          get(<<"t">>, params, method)

SpecMethods == Init /\ [][NextMethods]_vars

(***************************************************************************)
(* Specification SpecTest: the registrations of test_route in the order of *)
(* the test, any of them left out                                          *)
(***************************************************************************)
TestRegistrations ==
    << [path |-> <<"/", "a", "/", "b">>, route |-> _fn1, name |-> None],
       [path |-> <<"/", "a", "/", "b", "/", "<", "n", "a", "m", "e", ">">>,
        route |-> _fn2, name |-> None],
       [path |-> <<"/", "a", "/", "b", "/", "<", "n", "a", "m", "e", ">", "/",
                   "<", "s", "u", "b", "n", "a", "m", "e", ">">>,
        route |-> _fn3, name |-> None],
       [path |-> <<"/", "c", "/", "d", "/", "<", "n", "a", "m", "e", ":", "i",
                   "n", "t", ">", "/", "<", "s", "u", "b", "n", "a", "m", "e",
                   ">">>,
        route |-> _fn1, name |-> None],
       [path |-> <<"/", "c", "/", "d", "/", "<", "n", "a", "m", "e", ">">>,
        route |-> _fn2, name |-> None],
       [path |-> <<"/", "c", "/", "d", "/", "<", "n", "a", "m", "e", ">", "/",
                   "<", "p", "a", "t", "h", ":", "p", "a", "t", "h", ">">>,
        route |-> _fn3, name |-> <<"t", "e", "s", "t">>],
       [path |-> <<"/", "c", "/", "d", "/", "<", "n", "a", "m", "e", ":", "i",
                   "n", "t", ">">>,
        route |-> _fn3, name |-> None] >>

TestPaths ==
    { <<"/", "a", "/", "b">>,
      <<"/", "a", "/", "b", "/", "c">>,
      <<"/", "a", "/", "b", "/", "c", "/", "d">>,
      <<"/", "a", "/", "b", "/">>,
      <<"/", "a", "/", "b", "/", NL>>,
      <<"/", "a", "/", "b", "/", "3", "8", "/", "<", "x", ">">>,
      <<"/", "c", "/", "d", "/", "3", "7", "/", "t", "e", "s", "t">>,
      <<"/", "c", "/", "d", "/", "3", "8">>,
      <<"/", "c", "/", "d", "/", "3", "8", NL>>,
      <<"/", "c", "/", "d", "/", "3", "7", "c", "/", "t", "e", "s", "t">>,
      <<"/", "c", "/", "d", "/", "3", "8", "/", "s", "o", "m", "e", "t", "h",
        "i", "n", "g", "/", "e", "l", "s", "e", "/", "h", "e", "r", "e", "/">>,
      <<"/", "c", "/", "d", "/", "3", "7", "c", "/", "x", NL>> }

TestHandlePaths ==
    { <<"/", "a", "/", "b">>, <<"/", "a", "/", "b", "/">>,
      <<"/", "c", "/", "d", "/", "3", "8">> }

TestNames == { <<"t", "e", "s", "t">>, <<"t", "e", "s", "t", "2">> }

TestParams ==
    { EmptyDict,
      (<<"n", "a", "m", "e">> :> PyStr(<<"s", "m", "i", "t", "h">>))
      @@ (<<"p", "a", "t", "h">> :>
            PyStr(<<"n", "o", "t", "h", "i", "n", "g", "/", "h", "e", "r", "e">>)) }

\* the i-th registration of the test may run when neither it nor a later
\* one has run
InTestOrder(i) ==
    \A j \in i..Len(TestRegistrations) :
        <<Fold(GET), TestRegistrations[j].path>> \notin DOMAIN regd

NextTest ==
    \/ \E i \in DOMAIN TestRegistrations :
          InTestOrder(i) /\
          register(TestRegistrations[i].path, TestRegistrations[i].route,
                   TestRegistrations[i].name, Omitted)
    \/ \E path \in TestPaths : route(path, Omitted)
    \/ \E name \in TestNames, params \in TestParams : get(name, params, Omitted)
    \/ \E path \in TestHandlePaths, method \in {GET, POST} :
          handle_request(path, method)

SpecTest == Init /\ [][NextTest]_vars

(***************************************************************************)
(* Specification SpecNames: named templates with typed placeholders under  *)
(* two methods, and get with parameters that lack keys, have keys the      *)
(* template has not, and have values that are not strings                  *)
(***************************************************************************)
NameTemplates ==
    { <<"/", "a">>,
      <<"/", "c", "/", "d", "/", "<", "n", "a", "m", "e", ">", "/",
        "<", "p", "a", "t", "h", ":", "p", "a", "t", "h", ">">>,
      <<"/", "<", "i", ":", "i", "n", "t", ">", "-", "<", "n", "a", "m", "e", ">">> }

NameNames == { <<"t", "e", "s", "t">>, <<"u">> }

NameMethods == { Omitted, <<"p", "o", "s", "t">> }

NameParams ==
    { EmptyDict,
      (<<"n", "a", "m", "e">> :> PyStr(<<"s", "m", "i", "t", "h">>)),
      (<<"n", "a", "m", "e">> :> PyStr(<<"s", "m", "i", "t", "h">>))
      @@ (<<"p", "a", "t", "h">> :>
            PyStr(<<"n", "o", "t", "h", "i", "n", "g", "/", "h", "e", "r", "e">>)),
      (<<"i">> :> PyStr(<<"z">>))
      @@ (<<"n", "a", "m", "e">> :> PyInt(-7))
      @@ (<<"p", "a", "t", "h">> :> PyStr(<<"<", "n", "a", "m", "e", ">">>))
      @@ (<<"x">> :> PyStr(<<"y">>)) }

NextNames ==
    \/ \E path \in NameTemplates, name \in {None, <<"t", "e", "s", "t">>},
          method \in NameMethods :
          MayRegister(path, method) /\ register(path, _fn1, name, method)
    \/ \E name \in NameNames, params \in NameParams, method \in NameMethods :
          get(name, params, method)

SpecNames == Init /\ [][NextNames]_vars

(***************************************************************************)
(* Specification SpecReregister: literal and dynamic templates, one below  *)
(* the other and side by side, registered and registered again with the    *)
(* same and with another handler                                           *)
(***************************************************************************)
ReregisterTemplates ==
    { <<"/", "a">>,
      <<"/", "a", "/", "b">>,
      <<"/", "<", "n", ">">>,
      <<"/", "<", "i", ":", "i", "n", "t", ">", "/", "b">> }

ReregisterPaths ==
    { <<"/", "a">>, <<"/", "a", "/", "b">>, <<"/", "1">>, <<"/", "1", "/", "b">> }

NextReregister ==
    \/ \E path \in ReregisterTemplates, h \in Handlers :
          MayRegister(path, Omitted) /\ register(path, h, None, Omitted)
    \/ \E path \in ReregisterPaths : route(path, Omitted)

SpecReregister == Init /\ [][NextReregister]_vars

(***************************************************************************)
(* Specification SpecErrors: templates that register refuses, for their    *)
(* placeholder type or for the place of a matchall placeholder, among      *)
(* templates it accepts, with names, under two methods                     *)
(***************************************************************************)
ErrorTemplates ==
    { <<"/", "a">>,
      <<"/", "<", "n", ">">>,
      <<"/", "<", "n", ">", "/", "<", "x", ":", "b", "a", "d", ">">>,
      <<"/", "<", "p", ":", "p", "a", "t", "h", ">", "/", "a">>,
      <<"/", "a", "/", "<", "p", ":", "p", "a", "t", "h", ">", "<", "n", ">">> }

ErrorPaths == { <<"/", "a">>, <<"/", "b">>, <<"/", "b", "/", "a">> }

ErrorMethods == { Omitted, POST }

ErrorNames == { None, <<"t">> }

ErrorParams ==
    { EmptyDict,
      (<<"n">> :> PyStr(<<"b">>)) @@ (<<"p">> :> PyStr(<<"c">>))
      @@ (<<"x">> :> PyStr(<<"d">>)) }

NextErrors ==
    \/ \E path \in ErrorTemplates, name \in ErrorNames, method \in ErrorMethods :
          MayRegister(path, method) /\ register(path, _fn1, name, method)
    \/ \E path \in ErrorPaths, method \in ErrorMethods : route(path, method)
    \/ \E params \in ErrorParams, method \in ErrorMethods :
          get(<<"t">>, params, method)

SpecErrors == Init /\ [][NextErrors]_vars

(***************************************************************************)
(* Specification SpecConcurrent: two threads make route and get calls at   *)
(* once on a router that is registered on only while no lookup is under    *)
(* way                                                                     *)
(***************************************************************************)
ConcurrentTemplates ==
    { <<<<"/", "a">>, None>>,
      <<<<"/", "<", "n", ">">>, <<"t">>>>,
      <<<<"/", "a", "/", "<", "p", ":", "p", "a", "t", "h", ">">>, None>> }

ConcurrentPaths == { <<"/", "a">>, <<"/", "b">> }

ConcurrentNames == { <<"t">>, <<"u">> }

ConcurrentParams == { EmptyDict, (<<"n">> :> PyStr(<<"b">>)) }

NextConcurrent ==
    \/ \E c \in ConcurrentTemplates :
          NoLookup /\ MayRegister(c[1], Omitted)
              /\ register(c[1], _fn1, c[2], Omitted)
    \/ \E t \in Threads, path \in ConcurrentPaths : begin_route(t, path, Omitted)
    \/ \E t \in Threads : route_method(t)
    \/ \E t \in Threads : route_find_match(t)
    \/ \E t \in Threads, name \in ConcurrentNames, params \in ConcurrentParams :
          begin_get(t, name, params, Omitted)
    \/ \E t \in Threads : get_method(t)
    \/ \E t \in Threads : get_name(t)
    \/ \E t \in Threads : get_sub(t)

SpecConcurrent == Init /\ [][NextConcurrent]_vars

(***************************************************************************)
(* Specification SpecAdditive: templates that match the same paths, one    *)
(* below the other and side by side, registered one after the other under  *)
(* two methods                                                             *)
(***************************************************************************)
AdditiveTemplates ==
    { <<"/", "a">>,
      <<"/", "a", "/", "b">>,
      <<"/", "<", "n", ">">>,
      <<"/", "<", "i", ":", "i", "n", "t", ">">>,
      <<"/", "<", "n", ">", "/", "b">>,
      <<"/", "<", "p", ":", "p", "a", "t", "h", ">">> }

AdditivePaths ==
    { <<"/", "a">>,
      <<"/", "1">>,
      <<"/", "a", "/", "b">>,
      <<"/", "1", "/", "b">>,
      <<"/", "a", "/", "c">> }

AdditiveMethods == { Omitted, POST }

\* the registrations made: every template with either handler under the
\* default method, and three of them with one handler under POST
AdditiveRegistrations ==
    { <<path, h, Omitted>> : path \in AdditiveTemplates, h \in Handlers }
    \cup { <<path, _fn1, POST>> :
              path \in { <<"/", "a">>, <<"/", "<", "n", ">">>,
                         <<"/", "<", "n", ">", "/", "b">> } }

NextAdditive ==
    \E c \in AdditiveRegistrations :
        MayRegister(c[1], c[3]) /\ register(c[1], c[2], None, c[3])

SpecAdditive == Init /\ [][NextAdditive]_vars

(***************************************************************************)
(* Specification SpecRoundTrip: named templates, one of them below an int  *)
(* template that is searched first, one with two placeholders in a         *)
(* segment; get with parameters the placeholders accept and with           *)
(* parameters they do not                                                  *)
(***************************************************************************)
Template_name_i ==
    <<"/", "<", "n", "a", "m", "e", ">", "-", "<", "i", ":", "i", "n", "t", ">">>

RoundTripRegistrations ==
    { [path |-> <<"/", "c", "/", "d", "/", "<", "n", "a", "m", "e", ">", "/",
                  "<", "p", "a", "t", "h", ":", "p", "a", "t", "h", ">">>,
       route |-> _fn3, name |-> <<"t", "e", "s", "t">>],
      [path |-> <<"/", "c", "/", "d", "/", "<", "n", "a", "m", "e", ":", "i",
                  "n", "t", ">", "/", "<", "s", "u", "b", "n", "a", "m", "e",
                  ">">>,
       route |-> _fn1, name |-> None],
      [path |-> Template_name_i, route |-> _fn2, name |-> <<"u">>],
      [path |-> <<"/", "<", "i", ":", "i", "n", "t", ">">>,
       route |-> _fn1, name |-> <<"u">>] }

RoundTripNames == { <<"t", "e", "s", "t">>, <<"u">> }

RoundTripParams ==
    { EmptyDict,
      (<<"n", "a", "m", "e">> :> PyStr(<<"s", "m", "i", "t", "h">>))
      @@ (<<"p", "a", "t", "h">> :>
            PyStr(<<"n", "o", "t", "h", "i", "n", "g", "/", "h", "e", "r", "e">>)),
      (<<"n", "a", "m", "e">> :> PyInt(38))
      @@ (<<"p", "a", "t", "h">> :> PyStr(<<"x">>))
      @@ (<<"i">> :> PyInt(7)),
      (<<"n", "a", "m", "e">> :> PyStr(<<"a">>))
      @@ (<<"p", "a", "t", "h">> :> PyStr(<<>>))
      @@ (<<"i">> :> PyInt(-2)),
      (<<"n", "a", "m", "e">> :> PyStr(<<"a", "/", "b">>))
      @@ (<<"p", "a", "t", "h">> :> PyStr(<<"x", NL>>))
      @@ (<<"i">> :> PyStr(<<"z">>)) }

NextRoundTrip ==
    \/ \E c \in RoundTripRegistrations :
          MayRegister(c.path, Omitted) /\ register(c.path, c.route, c.name, Omitted)
    \/ \E name \in RoundTripNames, params \in RoundTripParams :
          get(name, params, Omitted)

SpecRoundTrip == Init /\ [][NextRoundTrip]_vars

(***************************************************************************)
(* Specification SpecLate: templates are registered, then one more         *)
(* register call is made by one thread while another thread makes route    *)
(* and get calls, the steps of the two interleaved                         *)
(***************************************************************************)
LateSetup ==
    { <<"/", "<", "i", ":", "i", "n", "t", ">">>,
      <<"/", "<", "n", ">">> }

LateRegistrations ==
    { [path |-> <<"/", "<", "f", ":", "f", "l", "o", "a", "t", ">">>,
       name |-> None],
      [path |-> <<"/", "<", "n", ">">>, name |-> <<"t">>],
      [path |-> <<"/", "a">>, name |-> None],
      [path |-> <<"/", "<", "x", ":", "b", "a", "d", ">">>, name |-> None] }

LatePaths == { <<"/", "a">>, <<"/", "1">> }

LateParams == { (<<"n">> :> PyStr(<<"b">>)) }

NextLate ==
    \/ \E path \in LateSetup :
          /\ NoLookup
          /\ MayRegister(path, Omitted)
          /\ register(path, _fn1, None, Omitted)
    \/ \E c \in LateRegistrations : begin_register(c.path, _fn2, c.name, Omitted)
    \/ register_method
    \/ register_split
    \/ register_insert
    \/ register_route
    \/ register_named
    \/ register_name
    \/ \E path \in LatePaths : begin_route(Reader, path, Omitted)
    \/ route_method(Reader)
    \/ route_root(Reader)
    \/ find_match_enter(Reader)
    \/ find_match_iter(Reader)
    \/ find_match_next(Reader)
    \/ \E params \in LateParams : begin_get(Reader, <<"t">>, params, Omitted)
    \/ get_method(Reader)
    \/ get_name(Reader)
    \/ get_sub(Reader)

SpecLate == Init /\ [][NextLate]_vars

(***************************************************************************)
(* What the properties below are stated with                               *)
(***************************************************************************)
RECURSIVE Branches(_, _, _)
RECURSIVE DynamicBranches(_, _, _, _)

\* Every way down the trie from node that consumes all of parts and ends at
\* a node with a handler, each with that handler and the bindings of its own
\* dynamic edges only; ordered by the order of the edges taken: at each node
\* the literal edge before the dynamic edges, these in the order of the dict.
Branches(h, node, parts) ==
    IF parts = <<>>
    THEN IF h[node].route # None
         THEN <<[route |-> h[node].route, params |-> EmptyDict]>>
         ELSE <<>>
    ELSE LET s == IndexOf(h[node].static, parts[1])
         IN  (IF s # 0 THEN Branches(h, h[node].static[s].child, Tail(parts))
              ELSE <<>>)
             \o DynamicBranches(h, node, 1, parts)

DynamicBranches(h, node, k, parts) ==
    IF k > Len(h[node].dynamic) THEN <<>>
    ELSE LET edge == h[node].dynamic[k]
             matched == ReMatch(edge.key.regex,
                                IF edge.key.matchall THEN join(parts, "/")
                                ELSE parts[1])
             below == Branches(h, edge.child,
                               IF edge.key.matchall THEN <<>> ELSE Tail(parts))
         IN  (IF matched.matched
              THEN [i \in DOMAIN below |->
                      [route |-> below[i].route,
                       params |-> Update(matched.groupdict, below[i].params)]]
              ELSE <<>>)
             \o DynamicBranches(h, node, k + 1, parts)

\* the method a call is made under: GET when the argument is left out
Given(method) == IF method = Omitted THEN <<"G", "E", "T">> ELSE method

\* the branches of the trie of the last call's method for its path
CallBranches ==
    LET roots == {m \in DOMAIN routes : Fold(m) = Fold(Given(call.method))}
    IN  IF roots = {} THEN <<>>
        ELSE Branches(heap, routes[CHOOSE m \in roots : TRUE],
                      split(call.path, "/"))

RECURSIVE SegmentsMatch(_, _)
\* the compiled segments of a template match the segments of a path, one by
\* one, a matchall segment matching the joined rest
SegmentsMatch(segments, parts) ==
    IF segments = <<>> THEN parts = <<>>
    ELSE /\ parts # <<>>
         /\ IF ~segments[1].tuple
            THEN segments[1].text = parts[1]
                 /\ SegmentsMatch(Tail(segments), Tail(parts))
            ELSE IF segments[1].matchall
            THEN ReMatch(segments[1].regex, join(parts, "/")).matched
                 /\ SegmentsMatch(Tail(segments), <<>>)
            ELSE ReMatch(segments[1].regex, parts[1]).matched
                 /\ SegmentsMatch(Tail(segments), Tail(parts))

TemplateMatches(template, path) ==
    LET compiled == _split_path(template, EmptyDict)
    IN  compiled.error = NoError
        /\ SegmentsMatch(compiled.parts, split(path, "/"))

\* some template registered under the last call's method matches its path
SomeTemplateMatches ==
    \E key \in DOMAIN regd :
        key[1] = Fold(Given(call.method)) /\ TemplateMatches(key[2], call.path)

\* the template has no placeholder
IsLiteral(template) ==
    LET compiled == _split_path(template, EmptyDict)
    IN  compiled.error = NoError
        /\ \A i \in DOMAIN compiled.parts : ~compiled.parts[i].tuple

\* the i-th registration of test_route has been made
Registered(i) == <<Fold(GET), TestRegistrations[i].path>> \in DOMAIN regd

Path_a_b_slash == <<"/", "a", "/", "b", "/">>
Path_c_d_38 == <<"/", "c", "/", "d", "/", "3", "8">>
Key_name == <<"n", "a", "m", "e">>
Key_subname == <<"s", "u", "b", "n", "a", "m", "e">>
Key_path == <<"p", "a", "t", "h">>

(***************************************************************************)
(* Properties                                                              *)
(***************************************************************************)

\* C1 (SpecTest): a branch that matches a segment but reaches no handler for
\* the rest of the path is passed over: whenever some branch resolves the
\* whole path, route returns the handler of the first branch that does; and
\* with "/c/d/<name:int>/<subname>" and "/c/d/<name>" registered, but not
\* "/c/d/<name:int>", route("/c/d/38") returns (_fn2, {"name": "38"}).
C1_BacktracksOverDeadEnds ==
    call.op = "route" =>
        /\ CallBranches # <<>> =>
              /\ ret.raised = NoError
              /\ ~ret.value.none
              /\ ret.value.route = CallBranches[1].route
        /\ (call.path = Path_c_d_38 /\ Registered(4) /\ Registered(5)
               /\ ~Registered(7)) =>
              ret = Return(Result(_fn2, (Key_name :> <<"3", "8">>)))

\* the int edge matched "38" and led nowhere; the sibling gave the handler
C1_Witness ==
    /\ call.op = "route"
    /\ call.path = Path_c_d_38
    /\ Registered(4) /\ Registered(5) /\ ~Registered(7)
    /\ ReMatchTokens(<<[group |-> TRUE, name |-> Key_name, re |-> ReInt]>>,
                     <<"3", "8">>).matched
    /\ ret.value.route = _fn2

\* the node reached from node by the literal edges for the first n parts, 0
\* if there is none
RECURSIVE LiteralNode(_, _, _, _)
LiteralNode(h, node, parts, n) ==
    IF n = 0 THEN node
    ELSE LET s == IndexOf(h[node].static, parts[1])
         IN  IF s = 0 THEN 0
             ELSE LiteralNode(h, h[node].static[s].child, Tail(parts), n - 1)

\* C2 (Spec): wherever along the literal edges of the path the literal child
\* for the next segment exists and resolves the remaining segments, route
\* returns the result of that child's subtree, whatever dynamic edges match.
C2_LiteralBeforeDynamic ==
    (call.op = "route" /\ upper(MethodOf(call.method)) \in DOMAIN routes) =>
        LET parts == split(call.path, "/")
            root == routes[upper(MethodOf(call.method))]
        IN  \A k \in 1..Len(parts) :
                LET node == LiteralNode(heap, root, parts, k - 1)
                    s == IF node = 0 THEN 0
                         ELSE IndexOf(heap[node].static, parts[k])
                    below == Branches(heap, heap[node].static[s].child,
                                      SubSeq(parts, k + 1, Len(parts)))
                IN  (s # 0 /\ below # <<>>) =>
                        ret = Return(Result(below[1].route, below[1].params))

\* "/a" is registered and so is "/<n>", which matches "/a" as well
C2_Witness ==
    /\ call.op = "route"
    /\ call.path = <<"/", "a">>
    /\ call.method = Omitted
    /\ <<Fold(GET), <<"/", "a">>>> \in DOMAIN regd
    /\ <<Fold(GET), <<"/", "<", "n", ">">>>> \in DOMAIN regd
    /\ ret = Return(Result(regd[<<Fold(GET), <<"/", "a">>>>], EmptyDict))

\* the dynamic entries of node that match parts and below which the rest of
\* the path resolves
ResolvingEntries(h, node, parts) ==
    {k \in DOMAIN h[node].dynamic :
        LET key == h[node].dynamic[k].key
        IN  /\ ReMatch(key.regex,
                       IF key.matchall THEN join(parts, "/") ELSE parts[1]).matched
            /\ Branches(h, h[node].dynamic[k].child,
                        IF key.matchall THEN <<>> ELSE Tail(parts)) # <<>>}

\* C3 (SpecTest): at every node, for every tail of the path that no literal
\* child resolves, find_match returns what the earliest created of the
\* resolving dynamic edges gives (the child allocated first); and with
\* "/c/d/<name:int>/<subname>", "/c/d/<name>" and then "/c/d/<name:int>"
\* registered, route("/c/d/38") returns (_fn3, {"name": "38"}).
C3_DynamicInCreationOrder ==
    call.op = "route" =>
        /\ \A node \in DOMAIN heap :
              \A k \in 1..Len(split(call.path, "/")) :
                 LET parts == From(split(call.path, "/"), k - 1)
                     s == IndexOf(heap[node].static, parts[1])
                     literal == IF s = 0 THEN <<>>
                                ELSE Branches(heap, heap[node].static[s].child,
                                              Tail(parts))
                     resolving == ResolvingEntries(heap, node, parts)
                     first == CHOOSE e \in resolving : \A o \in resolving :
                                 heap[node].dynamic[e].child
                                     <= heap[node].dynamic[o].child
                     key == heap[node].dynamic[first].key
                     matched == ReMatch(key.regex,
                                        IF key.matchall THEN join(parts, "/")
                                        ELSE parts[1])
                 IN  (literal = <<>> /\ resolving # {}) =>
                        find_match(heap, node, parts, EmptyDict) =
                            find_match(heap, heap[node].dynamic[first].child,
                                       IF key.matchall THEN <<>> ELSE Tail(parts),
                                       matched.groupdict)
        /\ (call.path = Path_c_d_38 /\ Registered(4) /\ Registered(5)
               /\ Registered(7)) =>
              ret = Return(Result(_fn3, (Key_name :> <<"3", "8">>)))

\* both the int edge and the plain edge resolve "/c/d/38"
C3_Witness ==
    /\ call.op = "route"
    /\ call.path = Path_c_d_38
    /\ Registered(4) /\ Registered(5) /\ Registered(7)
    /\ \E node \in DOMAIN heap :
          Cardinality(ResolvingEntries(heap, node, <<<<"3", "8">>>>)) = 2
    /\ ret.value.route = _fn3

\* C4 (SpecTest), as claimed: the value a matchall placeholder captures is
\* the remaining segments joined with "/", verbatim; in the templates of the
\* test the matchall placeholder is "path" in the fifth segment.
C4_MatchallCapturesVerbatim ==
    (call.op = "route" /\ ~ret.value.none /\ Key_path \in DOMAIN ret.value.params)
    => ret.value.params[Key_path] = join(From(split(call.path, "/"), 4), "/")

\* C5 (Spec): the parameters route returns are the bindings of the edges of
\* the branch it returns, and nothing else: no binding of an edge whose
\* sub-search failed.
C5_ParamsOfTheBranchOnly ==
    (call.op = "route" /\ ~ret.value.none) =>
        /\ CallBranches # <<>>
        /\ ret.value.params = CallBranches[1].params

\* "/1": the int edge of "/<i:int>/b" binds i and fails, "/<n>" succeeds
C5_Witness ==
    /\ call.op = "route"
    /\ call.path = <<"/", "1">>
    /\ <<Fold(GET), <<"/", "<", "i", ":", "i", "n", "t", ">", "/", "b">>>>
          \in DOMAIN regd
    /\ <<Fold(GET), <<"/", "<", "n", ">">>>> \in DOMAIN regd
    /\ ret.value.params = (<<"n">> :> <<"1">>)

\* C6 (SpecTest): with "/a/b", "/a/b/<name>" and "/a/b/<name>/<subname>"
\* registered, route("/a/b") = (_fn1, {}), route("/a/b/x") =
\* (_fn2, {name: x}) and route("/a/b/x/y") = (_fn3, {name: x, subname: y})
\* for non-empty x and y, and route("/a/b/") is not found.
C6_DepthExact ==
    (call.op = "route" /\ Registered(1) /\ Registered(2) /\ Registered(3)) =>
        LET parts == split(call.path, "/")
        IN  (Len(parts) >= 3 /\ SubSeq(parts, 1, 3) = <<<<>>, <<"a">>, <<"b">>>>) =>
            /\ Len(parts) = 3 => ret = Return(Result(_fn1, EmptyDict))
            /\ (Len(parts) = 4 /\ parts[4] # <<>>) =>
                  ret = Return(Result(_fn2, (Key_name :> parts[4])))
            /\ (Len(parts) = 5 /\ parts[4] # <<>> /\ parts[5] # <<>>) =>
                  ret = Return(Result(_fn3, (Key_name :> parts[4])
                                            @@ (Key_subname :> parts[5])))
            /\ (Len(parts) = 4 /\ parts[4] = <<>>) => ret = Return(NoneResult)

C6_Witness ==
    /\ call.op = "route"
    /\ call.path = Path_a_b_slash
    /\ Registered(1) /\ Registered(2) /\ Registered(3)
    /\ ret = Return(NoneResult)

\* C7 (Spec): a template without placeholders that has been registered is
\* found under its own text, with the handler of its last registration and
\* no parameters, whatever else is registered.
C7_LiteralTemplateFound ==
    (call.op = "route"
       /\ <<Fold(Given(call.method)), call.path>> \in DOMAIN regd
       /\ IsLiteral(call.path)) =>
        ret = Return(Result(regd[<<Fold(Given(call.method)), call.path>>],
                            EmptyDict))

\* "/" is registered, another template too
C7_Witness ==
    /\ call.op = "route"
    /\ call.path = <<"/">>
    /\ <<Fold(GET), <<"/">>>> \in DOMAIN regd
    /\ Cardinality(DOMAIN regd) >= 2
    /\ ret = Return(Result(regd[<<Fold(GET), <<"/">>>>], EmptyDict))

C9_MissRaisesLookupError ==
    (call.op = "route" /\ ~SomeTemplateMatches) => ret.raised \in LookupErrors

\* C10 (SpecMethods): route finds a path exactly when a template registered
\* under the same method, letter case aside, matches it; get resolves a name
\* registered under the same method, letter case aside, and no other; a
\* method left out is GET.
C10_MethodCaseInsensitive ==
    /\ call.op = "route" =>
          /\ ret.raised = NoError
          /\ ~ret.value.none <=> SomeTemplateMatches
    /\ call.op = "get" =>
          LET known == \E m \in DOMAIN named :
                          /\ Fold(m) = Fold(Given(call.method))
                          /\ call.name \in DOMAIN named[m]
          IN  /\ ~known => ret.raised = RouteError
              /\ (known /\ <<"n">> \in DOMAIN call.params) => ret.raised = NoError

\* found under "GeT": the registrations are made under "get" or no method
C10_Witness ==
    /\ call.op = "route"
    /\ call.method = <<"G", "e", "T">>
    /\ call.path = <<"/", "b">>
    /\ ~ret.value.none
    /\ \A key \in DOMAIN regd : key[1] = Fold(GET)

\* the prefix of a non-empty text s is a placeholder "<p>" or "<p:type>", p
\* made of letters, digits and "_" and type of characters other than ">":
\* whether it is, the key p, the type (empty when there is none), and the
\* text after the placeholder
PlaceholderAt(s) ==
    LET n == CHOOSE n \in 0..(Len(s) - 1) :
                 /\ \A k \in 2..(n + 1) : s[k] \in WordChars
                 /\ n + 2 > Len(s) \/ s[n + 2] \notin WordChars
        after == From(s, n + 1)
        close == Find(after, ">")
    IN  [is |-> /\ s[1] = "<"
                /\ n >= 1
                /\ after # <<>>
                /\ \/ after[1] = ">"
                   \/ after[1] = ":" /\ close >= 3,
         key |-> SubSeq(s, 2, n + 1),
         type |-> IF after # <<>> /\ after[1] = ":"
                  THEN SubSeq(after, 2, close - 1) ELSE <<>>,
         rest |-> From(after, close)]

RECURSIVE Placeholders(_)
\* the keys of the placeholders of a template
Placeholders(s) ==
    IF s = <<>> THEN {}
    ELSE IF PlaceholderAt(s).is
    THEN {PlaceholderAt(s).key} \cup Placeholders(PlaceholderAt(s).rest)
    ELSE Placeholders(Tail(s))

RECURSIVE Substitute(_, _)
\* the template with each placeholder replaced by str(params[p]), the rest
\* of its text kept
Substitute(s, params) ==
    IF s = <<>> THEN <<>>
    ELSE IF PlaceholderAt(s).is
    THEN str(params[PlaceholderAt(s).key])
         \o Substitute(PlaceholderAt(s).rest, params)
    ELSE <<s[1]>> \o Substitute(Tail(s), params)

\* the last call is a get of a name that was registered under its method,
\* and the template the name was last registered with
GetOfKnownName ==
    /\ call.op = "get"
    /\ <<Fold(Given(call.method)), call.name>> \in DOMAIN regn
NamedTemplate == regn[<<Fold(Given(call.method)), call.name>>]

Name_test == <<"t", "e", "s", "t">>
Template_c_d_name_path ==
    <<"/", "c", "/", "d", "/", "<", "n", "a", "m", "e", ">", "/",
      "<", "p", "a", "t", "h", ":", "p", "a", "t", "h", ">">>
Template_int_name ==
    <<"/", "<", "i", ":", "i", "n", "t", ">", "-", "<", "n", "a", "m", "e", ">">>

\* C11 (SpecNames): get of a registered name, with params that have a key
\* for every placeholder of its template, returns the template with each
\* placeholder "<p>" or "<p:type>" replaced by str(params[p]) and the rest
\* of the text kept, whatever the declared types and the other keys of
\* params; get("test", {"name": "smith", "path": "nothing/here"}) on
\* "/c/d/<name>/<path:path>" returns "/c/d/smith/nothing/here".
C11_ReversalSubstitutes ==
    (GetOfKnownName /\ Placeholders(NamedTemplate) \subseteq DOMAIN call.params) =>
        /\ ret = ReturnStr(Substitute(NamedTemplate, call.params))
        /\ (/\ NamedTemplate = Template_c_d_name_path
            /\ str(call.params[Key_name]) = <<"s", "m", "i", "t", "h">>
            /\ str(call.params[Key_path]) =
                  <<"n", "o", "t", "h", "i", "n", "g", "/", "h", "e", "r", "e">>) =>
              ret.value = <<"/", "c", "/", "d", "/", "s", "m", "i", "t", "h", "/",
                            "n", "o", "t", "h", "i", "n", "g", "/", "h", "e", "r", "e">>

\* "/<i:int>-<name>" reversed with i = "z", name = -7 and a key x it has not
C11_Witness ==
    /\ GetOfKnownName
    /\ NamedTemplate = Template_int_name
    /\ <<"x">> \in DOMAIN call.params
    /\ str(call.params[<<"i">>]) = <<"z">>
    /\ ret = ReturnStr(<<"/", "z", "-", "-", "7">>)

\* C12 (SpecTest): get returns a path only for a name registered under the
\* method of the call; for any other name it raises an error that an
\* "except LookupError" clause catches, and returns nothing.
C12_UnknownNameRaisesLookupError ==
    call.op = "get" =>
        /\ ret.raised = NoError => GetOfKnownName
        /\ ~GetOfKnownName => ret.raised \in LookupErrors /\ ret.value = None

\* C13 (SpecNames): get of a registered name whose template has a placeholder
\* that is no key of params raises an error of another kind than the
\* RouteError it raises for an unknown name, with a message about a missing
\* key, and returns nothing.
C13_MissingParameterIsItsOwnError ==
    (GetOfKnownName /\ ~(Placeholders(NamedTemplate) \subseteq DOMAIN call.params)) =>
        /\ ret.raised \notin {NoError, RouteError}
        /\ ret.message.about \in Placeholders(NamedTemplate) \ DOMAIN call.params
        /\ ret.value = None


RECURSIVE BranchNodes(_, _, _)
RECURSIVE DynamicBranchNodes(_, _, _, _)

\* the nodes the branches of Branches(h, node, parts) end at, in its order
BranchNodes(h, node, parts) ==
    IF parts = <<>>
    THEN IF h[node].route # None THEN <<node>> ELSE <<>>
    ELSE LET s == IndexOf(h[node].static, parts[1])
         IN  (IF s # 0 THEN BranchNodes(h, h[node].static[s].child, Tail(parts))
              ELSE <<>>)
             \o DynamicBranchNodes(h, node, 1, parts)

DynamicBranchNodes(h, node, k, parts) ==
    IF k > Len(h[node].dynamic) THEN <<>>
    ELSE LET edge == h[node].dynamic[k]
             matched == ReMatch(edge.key.regex,
                                IF edge.key.matchall THEN join(parts, "/")
                                ELSE parts[1])
         IN  (IF matched.matched
              THEN BranchNodes(h, edge.child,
                               IF edge.key.matchall THEN <<>> ELSE Tail(parts))
              ELSE <<>>)
             \o DynamicBranchNodes(h, node, k + 1, parts)

\* what route(path, method) returned before the last call
RouteBefore(path, method) ==
    LET m == upper(MethodOf(method))
    IN  IF m \notin DOMAIN before.routes THEN Return(NoneResult)
        ELSE Return(find_match(before.heap, before.routes[m], split(path, "/"),
                               EmptyDict))

\* the node at which route(path, method) found its handler before the last
\* call, 0 if it found none
ResolvedAtBefore(path, method) ==
    LET m == upper(MethodOf(method))
        nodes == IF m \in DOMAIN before.routes
                 THEN BranchNodes(before.heap, before.routes[m], split(path, "/"))
                 ELSE <<>>
    IN  IF nodes = <<>> THEN 0 ELSE nodes[1]

RECURSIVE Walk(_, _, _)
\* the node the edges of the compiled segments lead to from node, 0 if an
\* edge is missing
Walk(h, node, segments) ==
    IF segments = <<>> THEN node
    ELSE LET field == IF segments[1].tuple THEN "dynamic" ELSE "static"
             key == IF segments[1].tuple THEN DynKey(segments[1])
                    ELSE segments[1].text
             i == IndexOf(h[node][field], key)
         IN  IF i = 0 THEN 0 ELSE Walk(h, h[node][field][i].child, Tail(segments))

\* the terminal node that a template had in the trie of a method before the
\* last call, 0 if it had none
TerminalNodeBefore(template, method) ==
    LET m == upper(MethodOf(method))
        compiled == _split_path(template, before.re_cache)
    IN  IF m \notin DOMAIN before.routes \/ compiled.error # NoError THEN 0
        ELSE Walk(before.heap, before.routes[m], compiled.parts)

\* the last call is a register that returned, and the handler its template
\* had been registered with before, None if none
Registering == call.op = "register" /\ ret.raised = NoError
Replaced ==
    LET key == <<Fold(Given(call.method)), call.path>>
    IN  IF key \in DOMAIN before.regd THEN before.regd[key] ELSE None

\* C14 (SpecReregister): a register call for a template that is already
\* registered under the method changes the result of route for exactly the
\* paths that resolved at the terminal node of the template, which now
\* resolve to the handler of the call with the same parameters; every other
\* result of route stays as it was; so registering the same handler again
\* changes nothing.
C14_ReRegistration ==
    (Registering /\ Replaced # None) =>
        \A path \in ReregisterPaths, method \in {Omitted, POST} :
            LET was == RouteBefore(path, method)
                is == Router_route(path, method)
                at == ResolvedAtBefore(path, method)
                terminal == TerminalNodeBefore(call.path, call.method)
            IN  /\ terminal # 0
                /\ IF at = terminal /\ Fold(Given(method)) = Fold(Given(call.method))
                   THEN is = Return(Result(call.route, was.value.params))
                   ELSE is = was
                /\ Replaced = call.route => is = was

\* "/<n>" registered again with another handler while "/a" is registered
\* too: "/1" resolves to the new handler and "/a" as before
C14_Witness ==
    /\ Registering
    /\ call.path = <<"/", "<", "n", ">">>
    /\ Replaced \notin {None, call.route}
    /\ <<Fold(GET), <<"/", "a">>>> \in DOMAIN regd
    /\ RouteBefore(<<"/", "1">>, Omitted) =
          Return(Result(Replaced, (<<"n">> :> <<"1">>)))
    /\ Router_route(<<"/", "1">>, Omitted) =
          Return(Result(call.route, (<<"n">> :> <<"1">>)))
    /\ Router_route(<<"/", "a">>, Omitted) = RouteBefore(<<"/", "a">>, Omitted)

\* the terminal node of a template in the trie of a method, 0 if it has none
TerminalNode(template, method) ==
    LET m == upper(MethodOf(method))
        compiled == _split_path(template, re_cache)
    IN  IF m \notin DOMAIN routes \/ compiled.error # NoError THEN 0
        ELSE Walk(heap, routes[m], compiled.parts)

Template_int == <<"/", "<", "i", ":", "i", "n", "t", ">">>
Template_int_b == <<"/", "<", "i", ":", "i", "n", "t", ">", "/", "b">>

\* C15 (Spec): no node has two dynamic edges with the same matchall flag and
\* pattern text; the compiled object of an edge is the one the cache holds
\* for its text; and a register call leaves every edge that was there where
\* it was, leading to the same child, new edges coming after them: a segment
\* whose pattern text is at the node already follows the edge that is there.
C15_NoParallelEdges ==
    /\ \A node \in DOMAIN heap :
          \A i, j \in DOMAIN heap[node].dynamic :
              (/\ heap[node].dynamic[i].key.matchall = heap[node].dynamic[j].key.matchall
               /\ heap[node].dynamic[i].key.regex.pattern =
                     heap[node].dynamic[j].key.regex.pattern) => i = j
    /\ \A node \in DOMAIN heap :
          \A i \in DOMAIN heap[node].dynamic :
              LET regex == heap[node].dynamic[i].key.regex
              IN  regex.pattern \in DOMAIN re_cache /\ re_cache[regex.pattern] = regex
    /\ \A node \in DOMAIN before.heap :
          /\ Len(before.heap[node].dynamic) <= Len(heap[node].dynamic)
          /\ \A i \in DOMAIN before.heap[node].dynamic :
                heap[node].dynamic[i] = before.heap[node].dynamic[i]

\* "/<i:int>/b" registered after "/<i:int>": its first segment took the edge
\* of "/<i:int>", the only dynamic edge of its node
C15_Witness ==
    /\ Registering
    /\ call.path = Template_int_b
    /\ TerminalNodeBefore(Template_int, Omitted) # 0
    /\ TerminalNode(Template_int, Omitted) = TerminalNodeBefore(Template_int, Omitted)
    /\ LET shared == heap[TerminalNode(Template_int, Omitted)]
       IN  /\ Len(shared.static) = 1
           /\ shared.static[1].child = TerminalNode(Template_int_b, Omitted)
           /\ shared.route # None
    /\ \A node \in DOMAIN heap : Len(heap[node].dynamic) <= 1


RECURSIVE SegmentPlaceholders(_)
\* the placeholders of a segment, in the order of the text
SegmentPlaceholders(s) ==
    IF s = <<>> THEN <<>>
    ELSE IF PlaceholderAt(s).is
    THEN <<PlaceholderAt(s)>> \o SegmentPlaceholders(PlaceholderAt(s).rest)
    ELSE SegmentPlaceholders(Tail(s))

\* a placeholder type that matches the rest of the path: path and re*:...
IsMatchallType(type) ==
    type = <<"p", "a", "t", "h">> \/ StartsWith(type, <<"r", "e", "*", ":">>)

\* a placeholder type register accepts: none, int, float, path, re:..., re*:...
IsKnownType(type) ==
    \/ type \in { <<>>, <<"i", "n", "t">>, <<"f", "l", "o", "a", "t">> }
    \/ StartsWith(type, <<"r", "e", ":">>)
    \/ IsMatchallType(type)

\* the template has a placeholder of a type register does not accept
HasUnknownType(template) ==
    \E p \in DOMAIN split(template, "/") :
        LET placeholders == SegmentPlaceholders(split(template, "/")[p])
        IN  \E k \in DOMAIN placeholders : ~IsKnownType(placeholders[k].type)

\* the template has a matchall placeholder that is not in its last segment
\* or not the last placeholder of its segment
MatchallMisplaced(template) ==
    \E p \in DOMAIN split(template, "/") :
        LET placeholders == SegmentPlaceholders(split(template, "/")[p])
        IN  \E k \in DOMAIN placeholders :
                /\ IsMatchallType(placeholders[k].type)
                /\ p < Len(split(template, "/")) \/ k < Len(placeholders)

\* what get(name, params, method) returned or raised before the last call
GetBefore(name, params, method) ==
    LET m == upper(MethodOf(method))
        path == NamedReplace(before.named[m][name], params)
    IN  IF m \notin DOMAIN before.named \/ name \notin DOMAIN before.named[m]
        THEN RaiseMessage(RouteError, NoSuchNamedPath, name)
        ELSE IF path.error # NoError
        THEN RaiseMessage(path.error, NoParameter, path.key)
        ELSE ReturnStr(path.text)

Template_n_bad == <<"/", "<", "n", ">", "/", "<", "x", ":", "b", "a", "d", ">">>

\* C16 (SpecErrors): register of a template with a placeholder whose type is
\* none of int, float, path, re:..., re*:... raises the error of a bad
\* pattern, ValueError, and registers nothing: every route call and every
\* get call returns what it returned before the call, so neither the handler
\* nor the name of the call is reached.
C16_UnknownTypeRejected ==
    (call.op = "register" /\ HasUnknownType(call.path)) =>
        /\ ret.raised = ValueError
        /\ regd = before.regd
        /\ \A path \in ErrorPaths, method \in ErrorMethods :
              Router_route(path, method) = RouteBefore(path, method)
        /\ \A params \in ErrorParams, method \in ErrorMethods :
              Router_get(<<"t">>, params, method) = GetBefore(<<"t">>, params, method)

\* "/<n>/<x:bad>" refused under the name "t", which "/a" has: the pattern of
\* "<n>" was compiled and cached before the refusal, and get("t") is "/a"
C16_Witness ==
    /\ call.op = "register"
    /\ call.path = Template_n_bad
    /\ call.name = <<"t">>
    /\ ret.raised = ValueError
    /\ re_cache # before.re_cache
    /\ Router_get(<<"t">>, EmptyDict, call.method) = ReturnStr(<<"/", "a">>)

\* C17 (SpecErrors): register of a template with a matchall placeholder that
\* is not in the last segment, or not the last placeholder of its segment,
\* raises the error of a bad route definition, ValueError, and leaves the
\* tries of all methods, their edges and handlers, and the name table as
\* they were; no lookup raises that error.
C17_MisplacedMatchallLeavesStateUnchanged ==
    /\ (call.op = "register" /\ MatchallMisplaced(call.path)) =>
          /\ ret.raised = ValueError
          /\ routes = before.routes
          /\ heap = before.heap
          /\ named = before.named
    /\ call.op \in {"route", "get"} => ret.raised # ValueError


\* the text is an optional "-" followed by one or more digits
IsIntText(s) ==
    LET d == IF s # <<>> /\ s[1] = "-" THEN Tail(s) ELSE s
    IN  d # <<>> /\ \A i \in DOMAIN d : d[i] \in Digits

\* v is a part of the text: a run of its characters
IsPartOf(v, text) ==
    v = <<>> \/ \E i \in DOMAIN text : \E j \in i..Len(text) : SubSeq(text, i, j) = v

\* the pattern text of a segment that is "<name:int>" alone
IntPattern(name) == <<[group |-> TRUE, name |-> name, re |-> ReInt]>>

Path_c_d_37c_test ==
    <<"/", "c", "/", "d", "/", "3", "7", "c", "/", "t", "e", "s", "t">>

\* C18 (SpecTest): a typed placeholder is checked by shape against the whole
\* segment and nothing is converted: an int edge accepts a segment only if
\* the whole segment is an optional "-" and one or more digits, so a path
\* "/c/d/x" that only "/c/d/<name:int>" can resolve is found only for such
\* an x; with "/c/d/<name:int>/<subname>", "/c/d/<name>/<path:path>" and
\* "/c/d/<name:int>" registered, route("/c/d/37c/test") returns the handler
\* of the path template with {"name": "37c", "path": "test"}; and every
\* parameter value returned is a part of the path, as a string.
C18_TypedByShape ==
    call.op = "route" =>
        LET parts == split(call.path, "/")
        IN  /\ \A node \in DOMAIN heap : \A k \in DOMAIN heap[node].dynamic :
                  \A p \in DOMAIN parts :
                      (/\ heap[node].dynamic[k].key.regex.pattern = IntPattern(Key_name)
                       /\ ReMatch(heap[node].dynamic[k].key.regex, parts[p]).matched) =>
                          IsIntText(parts[p])
            /\ (/\ Len(parts) = 4
                /\ parts[2] = <<"c">>
                /\ Registered(7)
                /\ ~Registered(5)
                /\ ~ret.value.none) => IsIntText(parts[4])
            /\ (call.path = Path_c_d_37c_test /\ Registered(4) /\ Registered(6)
                   /\ Registered(7)) =>
                  ret = Return(Result(_fn3, (Key_name :> <<"3", "7", "c">>)
                                            @@ (Key_path :> <<"t", "e", "s", "t">>)))
            /\ ~ret.value.none =>
                  \A key \in DOMAIN ret.value.params :
                      IsPartOf(ret.value.params[key], call.path)

\* the tries, the name table and the regex cache of a snapshot
RouterOf(snapshot) ==
    [routes |-> snapshot.routes, named |-> snapshot.named,
     re_cache |-> snapshot.re_cache, heap |-> snapshot.heap]

\* C19 (SpecConcurrent): lookups need no locking. While threads are in route
\* and get calls whose steps interleave in any way, and no register runs,
\* the tries, the name table and the regex cache stay as they were when each
\* call began, and each call that returns gives exactly what the same call
\* gives when it runs alone on that router.
C19_LookupsNeedNoLocking ==
    /\ \A t \in Threads :
          active[t].op # "idle" => RouterOf(active[t].began) = RouterOf(Snapshot)
    /\ (call.op \in {"route", "get"}) => RouterOf(before) = RouterOf(Snapshot)
    /\ (call.op = "route") => ret = RouteBefore(call.path, call.method)
    /\ (call.op = "get") => ret = GetBefore(call.name, call.params, call.method)

\* a route call found a handler and returned while the other thread was in
\* the middle of a get call that has passed its two checks
C19_Witness ==
    /\ call.op = "route"
    /\ call.among = {"get"}
    /\ ~ret.value.none
    /\ \E t \in Threads : active[t].op = "get" /\ active[t].pc = "sub"

RECURSIVE SegmentsBindings(_, _)
\* what the placeholders of the compiled segments of a template capture
\* from the segments of a path they match, a later one of the same name over
\* an earlier one
SegmentsBindings(segments, parts) ==
    IF segments = <<>> \/ parts = <<>> THEN EmptyDict
    ELSE IF ~segments[1].tuple
    THEN SegmentsBindings(Tail(segments), Tail(parts))
    ELSE IF segments[1].matchall
    THEN ReMatch(segments[1].regex, join(parts, "/")).groupdict
    ELSE Update(ReMatch(segments[1].regex, parts[1]).groupdict,
                SegmentsBindings(Tail(segments), Tail(parts)))

TemplateBindings(template, path) ==
    SegmentsBindings(_split_path(template, EmptyDict).parts, split(path, "/"))

\* the templates registered under the last call's method that match its path
MatchingTemplates ==
    { key \in DOMAIN regd :
        key[1] = Fold(Given(call.method)) /\ TemplateMatches(key[2], call.path) }

\* C20 (SpecTest): the search is complete and sound. In every router state
\* that registrations reach and for every path, route returns a pair
\* (handler, params) if and only if at least one template registered under
\* the method matches the whole path, segment by segment, a matchall segment
\* matching the joined rest; the handler returned is the handler at the
\* terminal node of such a template, the one it was last registered with,
\* and params are the bindings of that template; route returns not found
\* exactly when no registered template matches.
C20_CompleteAndSound ==
    (call.op = "route") =>
        /\ ret.raised = NoError
        /\ ~ret.value.none <=> MatchingTemplates # {}
        /\ ret = Return(NoneResult) <=> MatchingTemplates = {}
        /\ ~ret.value.none =>
              \E key \in MatchingTemplates :
                  /\ TerminalNode(key[2], call.method) # 0
                  /\ ret.value.route
                         = heap[TerminalNode(key[2], call.method)].route
                  /\ ret.value.route = regd[key]
                  /\ ret.value.params = TemplateBindings(key[2], call.path)

\* a path with eight segments is found through a matchall placeholder while
\* a second registered template matches its first five segments only
C20_Witness ==
    /\ call.op = "route"
    /\ Len(split(call.path, "/")) = 8
    /\ Registered(4)
    /\ Registered(6)
    /\ Cardinality(MatchingTemplates) = 1
    /\ ret.value.route = _fn3
    /\ Key_path \in DOMAIN ret.value.params

\* C21 (SpecAdditive): registration is additive. A register(T, h) under
\* method M that returns changes what route(p, M') returns only for M' = M
\* and paths p that T matches: for every other method and path, route
\* returns the same handler and params after the call as before it; and no
\* path that route found a handler for before the call is not found after
\* it.
C21_RegistrationIsAdditive ==
    (call.op = "register" /\ ret.raised = NoError) =>
        \A path \in AdditivePaths, method \in AdditiveMethods :
            LET was == RouteBefore(path, method)
                now == Router_route(path, method)
            IN  /\ (\/ Fold(MethodOf(method)) # Fold(MethodOf(call.method))
                    \/ ~TemplateMatches(call.path, path)) => now = was
                /\ ~was.value.none => ~now.value.none

\* a register under POST of a template below one registered before changed
\* what route returns for a path it matches, while a path that it does not
\* match was found before under POST, and another under GET
C21_Witness ==
    /\ call.op = "register"
    /\ ret.raised = NoError
    /\ call.method = POST
    /\ \E path \in AdditivePaths :
          /\ TemplateMatches(call.path, path)
          /\ RouteBefore(path, POST) # Router_route(path, POST)
          /\ ~RouteBefore(path, POST).value.none
    /\ \E path \in AdditivePaths :
          /\ ~TemplateMatches(call.path, path)
          /\ ~RouteBefore(path, POST).value.none

\* params give the placeholder a value whose string form the pattern of the
\* placeholder accepts, a value that is not empty and has no "/" when the
\* placeholder matches within one segment
Accepted(placeholder, params) ==
    LET var == _parse_var(IF placeholder.type = <<>> THEN placeholder.key
                          ELSE placeholder.key \o <<":">> \o placeholder.type)
        text == str(params[placeholder.key])
    IN  /\ placeholder.key \in DOMAIN params
        /\ var.error = NoError
        /\ FragmentAccepts(var.regex.re, text)
        /\ ~var.matchall => (text # <<>> /\ NoneIn(text, {"/"}))

\* params give every placeholder of the template such a value
AcceptedBy(template, params) ==
    LET placeholders == SegmentPlaceholders(template)
    IN  \A k \in DOMAIN placeholders : Accepted(placeholders[k], params)

\* no segment of the template has more than one placeholder
OnePlaceholderPerSegment(template) ==
    LET parts == split(template, "/")
    IN  \A p \in DOMAIN parts : Len(SegmentPlaceholders(parts[p])) <= 1

\* the params of the template's placeholders, each value in its string form
StringForms(template, params) ==
    [key \in Placeholders(template) |-> str(params[key])]

\* the template of the last get is the first that the search for the path
\* that get returned comes to: no other template that matches it precedes
\* it in search order
NamedTemplateIsFirst ==
    LET nodes == BranchNodes(heap, routes[upper(MethodOf(call.method))],
                             split(ret.value, "/"))
    IN  nodes # <<>> /\ nodes[1] = TerminalNode(NamedTemplate, call.method)

\* route(get(name, params)) under the method of the last get is found, and
\* it returns the handler of the named template and the string forms of the
\* params when that template is the first in search order
RoundTrip ==
    LET back == Router_route(ret.value, call.method)
    IN  /\ back.raised = NoError
        /\ ~back.value.none
        /\ NamedTemplateIsFirst =>
              back = Return(Result(regd[<<Fold(Given(call.method)), NamedTemplate>>],
                                   StringForms(NamedTemplate, call.params)))

\* C22 (SpecRoundTrip), as claimed: for a template registered with a handler
\* and a name and params that give every placeholder a value its pattern
\* accepts, route(get(name, params)) is found and, when no other matching
\* template precedes it in search order, returns the handler and the params
\* in their string forms.
C22_RoundTrip ==
    (/\ GetOfKnownName
     /\ ret.raised = NoError
     /\ AcceptedBy(NamedTemplate, call.params)) => RoundTrip

\* C22 (SpecRoundTrip), amended: the same for a template that has no more
\* than one placeholder in any segment.
C22_RoundTripOnePlaceholderPerSegment ==
    (/\ GetOfKnownName
     /\ ret.raised = NoError
     /\ OnePlaceholderPerSegment(NamedTemplate)
     /\ AcceptedBy(NamedTemplate, call.params)) => RoundTrip

\* the path that get made of {"name": "smith", "path": "nothing/here"} is
\* found through the named template, the first in search order although the
\* int template above it was registered before
C22_Witness ==
    /\ GetOfKnownName
    /\ ret = ReturnStr(<<"/", "c", "/", "d", "/", "s", "m", "i", "t", "h", "/",
                         "n", "o", "t", "h", "i", "n", "g", "/", "h", "e", "r", "e">>)
    /\ Cardinality(DOMAIN regd) = 2
    /\ Len(heap[4].dynamic) = 2
    /\ NamedTemplateIsFirst
    /\ Router_route(ret.value, call.method).value.route = _fn3

\* the router that register(path, route, name, method) makes of the router
\* of a snapshot when it runs alone
RouterAfter(snapshot, path, handler, name, method) ==
    LET m == upper(MethodOf(method))
        heap1 == IF m \in DOMAIN snapshot.routes THEN snapshot.heap
                 ELSE Append(snapshot.heap, PathSegment)
        routes1 == IF m \in DOMAIN snapshot.routes THEN snapshot.routes
                   ELSE Update(snapshot.routes, (m :> Len(heap1)))
        segments == _split_path(path, snapshot.re_cache)
        leaf == Insert(heap1, routes1[m], segments.parts, 1)
        names == IF m \in DOMAIN snapshot.named THEN snapshot.named[m]
                 ELSE EmptyDict
    IN  IF segments.error # NoError
        THEN [routes |-> routes1, named |-> snapshot.named,
              re_cache |-> segments.cache, heap |-> heap1]
        ELSE [routes |-> routes1,
              named |-> IF name = None THEN snapshot.named
                        ELSE Update(snapshot.named,
                                 (m :> Update(names, (name :> NamedStrip(path))))),
              re_cache |-> segments.cache,
              heap |-> [leaf.heap EXCEPT ![leaf.target].route = handler]]

\* what route(path, method) returns on a router when it runs alone
RouteOn(router, path, method) ==
    LET m == upper(MethodOf(method))
    IN  IF m \notin DOMAIN router.routes THEN Return(NoneResult)
        ELSE Return(find_match(router.heap, router.routes[m], split(path, "/"),
                               EmptyDict))

\* what get(name, params, method) returns or raises on a router when it runs
\* alone
GetOn(router, name, params, method) ==
    LET m == upper(MethodOf(method))
        path == NamedReplace(router.named[m][name], params)
    IN  IF m \notin DOMAIN router.named \/ name \notin DOMAIN router.named[m]
        THEN RaiseMessage(RouteError, NoSuchNamedPath, name)
        ELSE IF path.error # NoError
        THEN RaiseMessage(path.error, NoParameter, path.key)
        ELSE ReturnStr(path.text)

\* the Writer has made its register call, and the router before that call
\* and the router the call makes of it when it runs alone
LateRegister == active[Writer].op = "register"
RouterBeforeLate == RouterOf(active[Writer].began)
RouterAfterLate ==
    RouterAfter(active[Writer].began, active[Writer].path, active[Writer].route,
                active[Writer].name, active[Writer].method)

\* C23 (SpecLate), as claimed: a route or get call whose steps interleave
\* with the steps of one register call returns either what it returns on the
\* router as it was before that registration or what it returns on the
\* router after it, and nothing else: no error, no handler of a template
\* that is inserted in part, no mixed params.
C23_BeforeOrAfter ==
    LateRegister =>
        /\ (call.op = "route") =>
              \/ ret = RouteOn(RouterBeforeLate, call.path, call.method)
              \/ ret = RouteOn(RouterAfterLate, call.path, call.method)
        /\ (call.op = "get") =>
              \/ ret = GetOn(RouterBeforeLate, call.name, call.params, call.method)
              \/ ret = GetOn(RouterAfterLate, call.name, call.params, call.method)


=============================================================================
